---- MODULE Spec2Model ----
(***************************************************************************)
(* The virtual file system of Banana OS (FileSystemService) and the        *)
(* command pipeline of its terminal (TerminalComponent) as state machines. *)
(* Strings are sequences of one-character strings, so that the textual     *)
(* operations of the code (startsWith, lastIndexOf, substring, split,      *)
(* trim, template concatenation, HTML escaping and stripping) are computed *)
(* character by character.  A node is a record; a file has no children     *)
(* field, and a directory gets a content field only when the code assigns  *)
(* one to it.  modifiedDate is a wall-clock reading that no operation ever *)
(* reads back, and is left out.  Of the terminal's commands, the pipeline  *)
(* runs echo, pwd, cd, cat, rm, wc, ping, ipconfig, clear and the unknown  *)
(* command; a command line that begins with "ai " streams its answer into  *)
(* the log.                                                                *)
(* The snapshot the service keeps in localStorage is the text that         *)
(* JSON.stringify writes, and a restart reads it back with JSON.parse.     *)
(* A children object is a plain object, so a lookup by key also finds the  *)
(* members every object inherits.                                          *)
(* The copilot (CopilotComponent) keeps chat sessions; a message is sent   *)
(* to a provider and the reply is awaited.  No message carries an image,   *)
(* no reply carries a fenced json block, and the copy of the sessions that *)
(* saveSessions writes to localStorage, which is read only when the        *)
(* component is created, is left out.                                      *)
(***************************************************************************)
EXTENDS Integers, Naturals, Sequences, FiniteSets, TLC

VARIABLES
    fileSystem,     \* the value of the fileSystem signal: the root directory node
    isCorrupted,    \* the value of the isCorrupted signal
    ret,            \* outcome of the latest call: "true", "false", "raised", "none"
    lines,          \* the terminal's output log, the value of the lines signal
    cwd,            \* the terminal's current directory, the value of the cwd signal
    runs,           \* the activations of runCommand that are awaiting a stage
    started,        \* the number of command lines given to runCommand so far
    storage,        \* the item of localStorage under the file system's key
    chatSessions,   \* the copilot's chatSessions signal: the sessions, newest first
    activeSessionId,\* the copilot's activeSessionId signal
    isLoading,      \* the copilot's isLoading signal
    requests,       \* the copilot's provider requests that are awaited
    sent,           \* the number of messages sendMessage has accepted so far
    clock           \* the latest reading of Date.now() that became a session id

vars == <<fileSystem, isCorrupted, ret, lines, cwd, runs, started, storage,
          chatSessions, activeSessionId, isLoading, requests, sent, clock>>

\* the copilot's part of the state
copilot == <<chatSessions, activeSessionId, isLoading, requests, sent, clock>>

\* the terminal's part of the state
terminal == <<lines, cwd, runs, started>>

----------------------------------------------------------------------------
(* String literals of the source *)

Slash == <<"/">>
Dot == <<".">>
EmptyStr == <<>>
SystemPrefix == <<"/", "S", "y", "s", "t", "e", "m", "/">>
ImagePrefix == <<"d", "a", "t", "a", ":", "i", "m", "a", "g", "e">>
CopyOpen == <<" ", "(", "c", "o", "p", "y">>
CopyClose == <<")">>
CorruptedTag == <<"C", "O", "R", "R", "U", "P", "T", "E", "D", "_", "D", "A", "T", "A", "_">>
DatExt == <<".", "d", "a", "t">>

Desktop == <<"D", "e", "s", "k", "t", "o", "p">>
Documents == <<"D", "o", "c", "u", "m", "e", "n", "t", "s">>
Downloads == <<"D", "o", "w", "n", "l", "o", "a", "d", "s">>
System == <<"S", "y", "s", "t", "e", "m">>
WelcomeTxt == <<"w", "e", "l", "c", "o", "m", "e", ".", "t", "x", "t">>
PhotoPng == <<"p", "h", "o", "t", "o", ".", "p", "n", "g">>
KernelBin == <<"k", "e", "r", "n", "e", "l", ".", "b", "i", "n">>
ConfigSys == <<"c", "o", "n", "f", "i", "g", ".", "s", "y", "s">>

welcomeContent ==
    <<"W", "e", "l", "c", "o", "m", "e", " ", "t", "o", " ", "t", "h", "e", " ",
      "B", "a", "n", "a", "n", "a", " ", "O", "S", " ", "T", "e", "x", "t", " ",
      "E", "d", "i", "t", "o", "r", "!">>
BinaryData == <<"B", "I", "N", "A", "R", "Y", "_", "D", "A", "T", "A">>
ConfigData == <<"C", "O", "N", "F", "I", "G", "_", "D", "A", "T", "A">>

defaultImageBase64 == <<
    "d", "a", "t", "a", ":", "i", "m", "a", "g", "e", "/", "p", "n", "g", ";", "b",
    "a", "s", "e", "6", "4", ",", "i", "V", "B", "O", "R", "w", "0", "K", "G", "g",
    "o", "A", "A", "A", "A", "N", "S", "U", "h", "E", "U", "g", "A", "A", "A", "E",
    "A", "A", "A", "A", "B", "A", "C", "A", "Y", "A", "A", "A", "C", "q", "a", "X",
    "H", "e", "A", "A", "A", "A", "A", "X", "N", "S", "R", "0", "I", "A", "r", "s",
    "4", "c", "6", "Q", "A", "A", "A", "H", "h", "J", "R", "E", "F", "U", "e", "J",
    "z", "t", "0", "D", "E", "B", "A", "A", "A", "A", "w", "q", "D", "1", "T", "2",
    "0", "N", "D", "6", "A", "A", "A", "A", "A", "A", "A", "A", "A", "A", "A", "A",
    "A", "A", "A", "A", "A", "A", "A", "A", "A", "A", "A", "A", "A", "A", "A", "A",
    "A", "A", "A", "A", "A", "A", "A", "A", "A", "A", "A", "A", "A", "A", "A", "A",
    "A", "A", "A", "A", "A", "A", "A", "A", "A", "A", "A", "A", "A", "A", "A", "A",
    "A", "A", "A", "A", "A", "A", "A", "A", "A", "A", "A", "A", "A", "A", "A", "A",
    "A", "A", "A", "A", "A", "A", "A", "A", "A", "A", "A", "A", "A", "A", "A", "A",
    "A", "A", "A", "A", "A", "A", "A", "A", "A", "A", "A", "A", "A", "A", "A", "A",
    "A", "A", "A", "A", "A", "A", "A", "A", "A", "A", "A", "A", "A", "A", "A", "A",
    "A", "A", "8", "A", "A", "n", "2", "A", "A", "B", "2", "G", "1", "p", "5", "A",
    "A", "A", "A", "A", "B", "J", "R", "U", "5", "E", "r", "k", "J", "g", "g", "g",
    "=", "=" >>

----------------------------------------------------------------------------
(* String operations of JavaScript, on sequences of characters *)

\* s.startsWith(p)
StartsWith(s, p) == Len(p) <= Len(s) /\ SubSeq(s, 1, Len(p)) = p

\* s.lastIndexOf(c) + 1: the 1-based position of the last c, 0 when there is none
LastIndexOf(s, c) ==
    LET I == {i \in 1..Len(s) : s[i] = c}
    IN  IF I = {} THEN 0 ELSE CHOOSE i \in I : \A j \in I : j <= i

\* s.substring(0, s.lastIndexOf(c))
BeforeLast(s, c) == SubSeq(s, 1, LastIndexOf(s, c) - 1)

\* s.substring(s.lastIndexOf(c) + 1)
AfterLast(s, c) == SubSeq(s, LastIndexOf(s, c) + 1, Len(s))

\* path.split('/').filter(p => p): the non-empty segments between slashes
RECURSIVE SplitAcc(_, _, _)
SplitAcc(s, cur, acc) ==
    IF s = <<>> THEN (IF cur = <<>> THEN acc ELSE Append(acc, cur))
    ELSE IF Head(s) = "/"
         THEN SplitAcc(Tail(s), <<>>, IF cur = <<>> THEN acc ELSE Append(acc, cur))
         ELSE SplitAcc(Tail(s), Append(cur, Head(s)), acc)

PathParts(path) == SplitAcc(path, <<>>, <<>>)

\* `${parentPath === '/' ? '' : parentPath}/${name}`
ChildPath(parentPath, name) ==
    (IF parentPath = Slash THEN EmptyStr ELSE parentPath) \o Slash \o name

\* String(n) for a natural number n
DigitChar(d) == <<"0", "1", "2", "3", "4", "5", "6", "7", "8", "9">>[d + 1]

RECURSIVE NatToStr(_)
NatToStr(n) == IF n < 10 THEN <<DigitChar(n)>>
               ELSE NatToStr(n \div 10) \o <<DigitChar(n % 10)>>

----------------------------------------------------------------------------
(* The built-in default tree *)

calculateBase64Size(b64) == ((Len(b64) + 3) \div 4) * 3

calculateSize(content) ==
    IF StartsWith(content, ImagePrefix) THEN calculateBase64Size(content)
    ELSE Len(content)

NoChildren == [k \in {} |-> k]

File(name, path, content, size) ==
    [name |-> name, path |-> path, type |-> "file", content |-> content, size |-> size]

Directory(name, path, children) ==
    [name |-> name, path |-> path, type |-> "directory", children |-> children, size |-> 0]

welcomeFile ==
    File(WelcomeTxt, Slash \o Documents \o Slash \o WelcomeTxt, welcomeContent,
         Len(welcomeContent))

photoFile ==
    File(PhotoPng, Slash \o Documents \o Slash \o PhotoPng, defaultImageBase64,
         calculateBase64Size(defaultImageBase64))

kernelFile == File(KernelBin, Slash \o System \o Slash \o KernelBin, BinaryData, 4096)

configFile == File(ConfigSys, Slash \o System \o Slash \o ConfigSys, ConfigData, 1024)

initialFileSystem ==
    Directory(EmptyStr, Slash,
        (Desktop :> Directory(Desktop, Slash \o Desktop, NoChildren))
     @@ (Documents :> Directory(Documents, Slash \o Documents,
                        (WelcomeTxt :> welcomeFile) @@ (PhotoPng :> photoFile)))
     @@ (Downloads :> Directory(Downloads, Slash \o Downloads, NoChildren))
     @@ (System :> Directory(System, Slash \o System,
                        (KernelBin :> kernelFile) @@ (ConfigSys :> configFile))))

----------------------------------------------------------------------------
(* Lookup *)

Null == [type |-> "null"]
Undefined == [type |-> "undefined"]
Raised == [type |-> "raised"]

IsDir(node) == node.type = "directory"
IsFile(node) == node.type = "file"

\* children is a plain object: reading a key it does not own gives the member of
\* that name its prototype has, a function or the prototype itself, never a node
ObjectPrototypeKeys ==
    { <<"c", "o", "n", "s", "t", "r", "u", "c", "t", "o", "r">>,
      <<"t", "o", "S", "t", "r", "i", "n", "g">>,
      <<"v", "a", "l", "u", "e", "O", "f">>,
      <<"h", "a", "s", "O", "w", "n", "P", "r", "o", "p", "e", "r", "t", "y">>,
      <<"_", "_", "p", "r", "o", "t", "o", "_", "_">> }

Inherited == [type |-> "inherited"]

\* children[key] is truthy
HasMember(children, key) == key \in DOMAIN children \/ key \in ObjectPrototypeKeys

\* children[key], for a key that HasMember
MemberOf(children, key) ==
    IF key \in DOMAIN children THEN children[key] ELSE Inherited

RECURSIVE Descend(_, _)
Descend(currentNode, parts) ==
    IF parts = <<>> THEN currentNode
    ELSE IF IsDir(currentNode) /\ HasMember(currentNode.children, Head(parts))
         THEN Descend(MemberOf(currentNode.children, Head(parts)), Tail(parts))
         ELSE Null

getNode(fs, path) == IF path = Slash THEN fs ELSE Descend(fs, PathParts(path))

getDirectory(fs, path) ==
    LET node == getNode(fs, path) IN IF IsDir(node) THEN node ELSE Null

readFile(fs, path) ==
    LET node == getNode(fs, path) IN IF IsFile(node) THEN node.content ELSE Null

----------------------------------------------------------------------------
(* Helpers for the deep-copied tree that a mutation edits *)

\* the tree with the node at the key path `parts` replaced by `new`
RECURSIVE ReplaceAt(_, _, _)
ReplaceAt(node, parts, new) ==
    IF parts = <<>> THEN new
    ELSE [node EXCEPT !.children[Head(parts)] = ReplaceAt(@, Tail(parts), new)]

\* delete dir.children[key]
RemoveChild(dir, key) ==
    [dir EXCEPT !.children = [k \in (DOMAIN @) \ {key} |-> @[k]]]

\* dir.children[key] = node
PutChild(dir, key, node) ==
    [dir EXCEPT !.children = (key :> node) @@ @]

\* obj.field = value for each field of `fields` (adds the field when absent)
Assign(obj, fields) == fields @@ obj

RECURSIVE NodeCount(_)
NodeCount(node) ==
    IF IsDir(node)
    THEN 1 + (LET ch == node.children
                  RECURSIVE Sum(_)
                  Sum(S) == IF S = {} THEN 0
                            ELSE LET k == CHOOSE x \in S : TRUE
                                 IN  NodeCount(ch[k]) + Sum(S \ {k})
              IN  Sum(DOMAIN ch))
    ELSE 1

Result(fs, flag, r) == [fs |-> fs, flag |-> flag, ret |-> r]

----------------------------------------------------------------------------
(* updateNodeByPath and the operations built on it.  Every operation is an *)
(* operator from the signals' values and the arguments to the values after *)
(* the call and what the call returned.                                    *)

\* the loop of updateNodeByPath: the key path's target in the copy, Null when an
\* intermediate segment is missing or no directory, or the last one is missing
RECURSIVE FindTarget(_, _)
FindTarget(currentNode, parts) ==
    IF Len(parts) = 1
    THEN IF Head(parts) \in DOMAIN currentNode.children
         THEN currentNode.children[Head(parts)] ELSE Null
    ELSE IF Head(parts) \in DOMAIN currentNode.children
            /\ IsDir(currentNode.children[Head(parts)])
         THEN FindTarget(currentNode.children[Head(parts)], Tail(parts))
         ELSE Null

\* the node updateNodeByPath hands to its update function, Null when it calls none
UpdateTarget(fs, path) ==
    IF path = Slash THEN fs
    ELSE IF PathParts(path) = <<>> THEN Null
    ELSE FindTarget(fs, PathParts(path))

\* updateNodeByPath with the protected-prefix test after the edit instead of
\* before it
updateNodeByPathLateGuard(fs, flag, path, updated) ==
    LET parts == PathParts(path) IN
    IF parts = <<>> /\ path # Slash THEN Result(fs, flag, "false")
    ELSE LET edited == IF path = Slash THEN updated
                       ELSE IF FindTarget(fs, parts) = Null THEN fs
                       ELSE ReplaceAt(fs, parts, updated)
         IN  IF StartsWith(path, SystemPrefix) THEN Result(edited, TRUE, "false")
             ELSE Result(edited, flag, "true")

\* updateNodeByPath(path, updateFn), `updated` being updateFn's effect on
\* UpdateTarget(fs, path)
updateNodeByPath(fs, flag, path, updated) ==
    IF StartsWith(path, SystemPrefix) THEN Result(fs, TRUE, "false")
    ELSE LET parts == PathParts(path) IN
         IF parts = <<>> /\ path # Slash THEN Result(fs, flag, "false")
         ELSE IF path = Slash THEN Result(updated, flag, "true")
         ELSE IF FindTarget(fs, parts) = Null THEN Result(fs, flag, "true")
         ELSE Result(ReplaceAt(fs, parts, updated), flag, "true")

\* writeFile assigning the content and leaving the size as it was
writeFileKeepingSize(fs, flag, path, content) ==
    IF StartsWith(path, SystemPrefix) THEN Result(fs, TRUE, "false")
    ELSE updateNodeByPath(fs, flag, path,
            Assign(UpdateTarget(fs, path), [content |-> content]))

writeFile(fs, flag, path, content) ==
    IF StartsWith(path, SystemPrefix) THEN Result(fs, TRUE, "false")
    ELSE updateNodeByPath(fs, flag, path,
            Assign(UpdateTarget(fs, path),
                   [content |-> content, size |-> calculateSize(content)]))

createDirectory(fs, flag, parentPath, dirName) ==
    LET parentDir == getDirectory(fs, parentPath) IN
    IF parentDir = Null \/ HasMember(parentDir.children, dirName)
    THEN Result(fs, flag, "false")
    ELSE updateNodeByPath(fs, flag, parentPath,
            PutChild(UpdateTarget(fs, parentPath), dirName,
                Directory(dirName, ChildPath(parentPath, dirName), NoChildren)))

createFile(fs, flag, parentPath, fileName, content) ==
    LET parentDir == getDirectory(fs, parentPath) IN
    IF parentDir = Null \/ HasMember(parentDir.children, fileName)
    THEN Result(fs, flag, "false")
    ELSE updateNodeByPath(fs, flag, parentPath,
            PutChild(UpdateTarget(fs, parentPath), fileName,
                File(fileName, ChildPath(parentPath, fileName), content,
                     calculateSize(content))))

\* path.substring(0, path.lastIndexOf('/')) || '/'
ParentPathOf(path) ==
    IF BeforeLast(path, "/") = EmptyStr THEN Slash ELSE BeforeLast(path, "/")

\* deleteNode writing false to isCorrupted when it deletes
deleteNodeClearingFlag(fs, flag, path) ==
    IF StartsWith(path, SystemPrefix) THEN Result(fs, TRUE, "false")
    ELSE LET parentPath == ParentPathOf(path)
             nodeName == AfterLast(path, "/")
             parentDir == getDirectory(fs, parentPath)
         IN  IF parentDir = Null \/ ~HasMember(parentDir.children, nodeName)
             THEN Result(fs, flag, "false")
             ELSE updateNodeByPath(fs, FALSE, parentPath,
                     RemoveChild(UpdateTarget(fs, parentPath), nodeName))

deleteNode(fs, flag, path) ==
    IF StartsWith(path, SystemPrefix) THEN Result(fs, TRUE, "false")
    ELSE LET parentPath == ParentPathOf(path)
             nodeName == AfterLast(path, "/")
             parentDir == getDirectory(fs, parentPath)
         IN  IF parentDir = Null \/ ~HasMember(parentDir.children, nodeName)
             THEN Result(fs, flag, "false")
             ELSE updateNodeByPath(fs, flag, parentPath,
                     RemoveChild(UpdateTarget(fs, parentPath), nodeName))

RECURSIVE updateChildrenPaths(_, _)
updateChildrenPaths(dir, parentPath) ==
    LET path == ChildPath(parentPath, dir.name) IN
    IF IsDir(dir)
    THEN [dir EXCEPT !.path = path,
                     !.children = [childName \in DOMAIN @ |->
                                     updateChildrenPaths(@[childName], path)]]
    ELSE [dir EXCEPT !.path = path]

\* renameNode without the re-keying: the renamed node stays under its old key
RenameInKeepingKey(dir, parentPath, oldName, newName) ==
    PutChild(dir, oldName,
             [dir.children[oldName] EXCEPT
                 !.name = newName, !.path = ChildPath(parentPath, newName)])

\* the update function of renameNode, applied to the parent directory
RenameIn(dir, parentPath, oldName, newName) ==
    LET renamed == [dir.children[oldName] EXCEPT
                        !.name = newName, !.path = ChildPath(parentPath, newName)]
        nodeToRename == IF IsDir(renamed)
                        THEN updateChildrenPaths(renamed, renamed.path)
                        ELSE renamed
    IN  RemoveChild(PutChild(dir, newName, nodeToRename), oldName)

renameNode(fs, flag, path, newName) ==
    IF StartsWith(path, SystemPrefix) THEN Result(fs, TRUE, "false")
    ELSE LET parentPath == ParentPathOf(path)
             oldName == AfterLast(path, "/")
             parentDir == getDirectory(fs, parentPath)
         IN  IF parentDir = Null \/ ~HasMember(parentDir.children, oldName)
                \/ HasMember(parentDir.children, newName)
             THEN Result(fs, flag, "false")
             ELSE updateNodeByPath(fs, flag, parentPath,
                     RenameIn(UpdateTarget(fs, parentPath), parentPath,
                              oldName, newName))

----------------------------------------------------------------------------
(* moveNode and copyNode edit the copy of the tree themselves *)

\* forEach(part => { d = d.children[part] }): reading .children of undefined, or
\* indexing the missing children of a file, throws a TypeError
RECURSIVE JsWalk(_, _)
JsWalk(node, parts) ==
    IF parts = <<>> THEN node
    ELSE IF ~IsDir(node) THEN Raised
    ELSE JsWalk(IF Head(parts) \in DOMAIN node.children
                THEN node.children[Head(parts)] ELSE Undefined,
                Tail(parts))

\* moveNode's update function without the call of updateChildrenPaths
MoveInKeepingPaths(fs, sourcePath, newParentPath, oldParentPath) ==
    LET oldParts == PathParts(oldParentPath)
        oldParent == JsWalk(fs, oldParts)
        nodeName == AfterLast(sourcePath, "/")
    IN  IF ~IsDir(oldParent) THEN Raised
        ELSE IF nodeName \notin DOMAIN oldParent.children THEN fs
        ELSE LET nodeCopy == oldParent.children[nodeName]
                 detached == ReplaceAt(fs, oldParts, RemoveChild(oldParent, nodeName))
                 newParts == PathParts(newParentPath)
                 newParentDir == JsWalk(detached, newParts)
             IN  IF ~IsDir(newParentDir) THEN Raised
                 ELSE ReplaceAt(detached, newParts,
                                PutChild(newParentDir, nodeCopy.name, nodeCopy))

\* the update function of moveNode on the tree fs; Raised when it throws
MoveIn(fs, sourcePath, newParentPath, oldParentPath) ==
    LET oldParts == PathParts(oldParentPath)
        oldParent == JsWalk(fs, oldParts)
        nodeName == AfterLast(sourcePath, "/")
    IN  IF ~IsDir(oldParent) THEN Raised
        ELSE IF nodeName \notin DOMAIN oldParent.children THEN fs
        ELSE LET nodeCopy == oldParent.children[nodeName]
                 detached == ReplaceAt(fs, oldParts, RemoveChild(oldParent, nodeName))
                 newParts == PathParts(newParentPath)
                 newParentDir == JsWalk(detached, newParts)
                 moved == updateChildrenPaths(nodeCopy, newParentPath)
             IN  IF ~IsDir(newParentDir) THEN Raised
                 ELSE ReplaceAt(detached, newParts,
                                PutChild(newParentDir, moved.name, moved))

moveNode(fs, flag, sourcePath, newParentPath) ==
    LET nodeToMove == getNode(fs, sourcePath)
        newParent == getDirectory(fs, newParentPath)
    IN  IF nodeToMove = Null \/ newParent = Null
           \/ nodeToMove.name \in DOMAIN newParent.children
           \/ StartsWith(sourcePath, SystemPrefix)
        THEN Result(fs, flag, "false")
        ELSE IF IsDir(nodeToMove) /\ StartsWith(newParentPath, nodeToMove.path)
        THEN Result(fs, flag, "false")
        ELSE LET oldParentPath == ParentPathOf(sourcePath) IN
             IF oldParentPath = newParentPath THEN Result(fs, flag, "false")
             ELSE LET newFs == MoveIn(fs, sourcePath, newParentPath, oldParentPath)
                  IN  IF newFs = Raised THEN Result(fs, flag, "raised")
                      ELSE Result(newFs, flag, "true")

\* name.split('.'): ext is '.' + the last piece when there is a dot, base the rest
ExtOf(name) == IF LastIndexOf(name, ".") = 0 THEN EmptyStr
               ELSE Dot \o AfterLast(name, ".")

BaseOf(name) == IF LastIndexOf(name, ".") = 0 THEN name ELSE BeforeLast(name, ".")

\* the while loop of copyNode writing the counter into the first suffix too
RECURSIVE CopyNameNumbered(_, _, _, _)
CopyNameNumbered(children, sourceName, newName, counter) ==
    IF newName \notin DOMAIN children THEN newName
    ELSE CopyNameNumbered(children, sourceName,
            BaseOf(sourceName) \o CopyOpen \o <<" ">> \o NatToStr(counter)
                \o CopyClose \o ExtOf(sourceName),
            counter + 1)

\* the while loop of copyNode
RECURSIVE CopyName(_, _, _, _)
CopyName(children, sourceName, newName, counter) ==
    IF newName \notin DOMAIN children THEN newName
    ELSE CopyName(children, sourceName,
            BaseOf(sourceName) \o CopyOpen
                \o (IF counter > 1 THEN <<" ">> \o NatToStr(counter) ELSE EmptyStr)
                \o CopyClose \o ExtOf(sourceName),
            counter + 1)

\* the key path copyNode's forEach reaches: a segment that names no directory
\* child is skipped
RECURSIVE CopyTarget(_, _, _)
CopyTarget(targetDir, parts, reached) ==
    IF parts = <<>> THEN reached
    ELSE IF Head(parts) \in DOMAIN targetDir.children
            /\ IsDir(targetDir.children[Head(parts)])
         THEN CopyTarget(targetDir.children[Head(parts)], Tail(parts),
                         Append(reached, Head(parts)))
         ELSE CopyTarget(targetDir, Tail(parts), reached)

\* copyNode storing the duplicate with the stored paths of the source
copyNodeKeepingPaths(fs, flag, sourcePath, destinationParentPath) ==
    LET sourceNode == getNode(fs, sourcePath)
        destinationDir == getDirectory(fs, destinationParentPath)
    IN  IF sourceNode = Null \/ destinationDir = Null THEN Result(fs, flag, "false")
        ELSE LET newName == CopyName(destinationDir.children, sourceNode.name,
                                     sourceNode.name, 1)
             IN  IF IsDir(sourceNode) /\ StartsWith(destinationParentPath, sourcePath)
                 THEN Result(fs, flag, "false")
                 ELSE LET nodeCopy == [sourceNode EXCEPT
                                          !.name = newName,
                                          !.path = ChildPath(destinationParentPath, newName)]
                          reached == CopyTarget(fs, PathParts(destinationParentPath), <<>>)
                          targetDir == JsWalk(fs, reached)
                      IN  Result(ReplaceAt(fs, reached,
                                           PutChild(targetDir, nodeCopy.name, nodeCopy)),
                                 flag, "true")

copyNode(fs, flag, sourcePath, destinationParentPath) ==
    LET sourceNode == getNode(fs, sourcePath)
        destinationDir == getDirectory(fs, destinationParentPath)
    IN  IF sourceNode = Null \/ destinationDir = Null THEN Result(fs, flag, "false")
        ELSE LET newName == CopyName(destinationDir.children, sourceNode.name,
                                     sourceNode.name, 1)
             IN  IF IsDir(sourceNode) /\ StartsWith(destinationParentPath, sourcePath)
                 THEN Result(fs, flag, "false")
                 ELSE LET nodeCopy == updateChildrenPaths(
                                          [sourceNode EXCEPT !.name = newName],
                                          destinationParentPath)
                          reached == CopyTarget(fs, PathParts(destinationParentPath), <<>>)
                          targetDir == JsWalk(fs, reached)
                      IN  Result(ReplaceAt(fs, reached,
                                           PutChild(targetDir, nodeCopy.name, nodeCopy)),
                                 flag, "true")

\* resetToDefaults leaving the flag as it is
resetToDefaultsKeepingFlag(fs, flag) == Result(initialFileSystem, flag, "none")

resetToDefaults(fs, flag) == Result(initialFileSystem, FALSE, "none")

----------------------------------------------------------------------------
(* corruptFileSystem: every resolution of its Math.random() draws *)

\* the values gibberish() is drawn from
Gibberish == { <<"k", "3", "x", "9", "q">> }

\* the deletion branch without its exemption
DeletableAlways(key) == TRUE

\* !['System', 'Desktop'].includes(key)
Deletable(key) == key \notin {System, Desktop}

\* the trees traverseAndCorrupt(dir) can leave in place of dir
RECURSIVE traverseAndCorrupt(_)
traverseAndCorrupt(dir) ==
    LET \* what may stand under key afterwards; Undefined: the key was deleted
        Outcomes(key) ==
            LET node == dir.children[key]
                corrupted ==
                    IF IsFile(node)
                    THEN { Assign(node, [name |-> g \o DatExt,
                                         content |-> CorruptedTag \o h]) :
                             g \in Gibberish, h \in Gibberish }
                    ELSE { [d EXCEPT !.name = g] :
                             g \in Gibberish, d \in traverseAndCorrupt(node) }
            IN  {node} \cup corrupted
                  \cup (IF Deletable(key) THEN {Undefined} ELSE {})
        RECURSIVE Children(_)
        Children(keys) ==
            IF keys = {} THEN {NoChildren}
            ELSE LET key == CHOOSE k \in keys : TRUE
                 IN  { IF o = Undefined THEN f ELSE (key :> o) @@ f :
                         f \in Children(keys \ {key}), o \in Outcomes(key) }
    IN  { [dir EXCEPT !.children = f] : f \in Children(DOMAIN dir.children) }

\* the outcomes of a call: isCorrupted is not assigned
corruptFileSystem(fs, flag) ==
    { Result(corruptedFs, flag, "none") : corruptedFs \in traverseAndCorrupt(fs) }

----------------------------------------------------------------------------
(* The terminal (TerminalComponent): string operations.  A string that may *)
(* be null or undefined in the code is here a sequence too: NullStr and     *)
(* UndefinedStr are one-element sequences that no string of characters      *)
(* equals.                                                                  *)

NullStr == <<"null">>
UndefinedStr == <<"undefined">>

\* !value for a string that may be undefined or null
Falsy(value) == value \in {EmptyStr, NullStr, UndefinedStr}

\* ${value} in a template literal
Interpolate(value) ==
    IF value = UndefinedStr THEN <<"u", "n", "d", "e", "f", "i", "n", "e", "d">>
    ELSE IF value = NullStr THEN <<"n", "u", "l", "l">>
    ELSE value

\* args[n - 1]
Arg(args, n) == IF n <= Len(args) THEN args[n] ELSE UndefinedStr

\* the white space of String.prototype.trim, of the regular expression \s and of
\* the HTML parser, as far as the inputs contain it
Whitespace == {" ", "\n", "\t", "\r", "\f"}

RECURSIVE TrimStart(_)
TrimStart(s) ==
    IF s # <<>> /\ Head(s) \in Whitespace THEN TrimStart(Tail(s)) ELSE s

RECURSIVE TrimEnd(_)
TrimEnd(s) ==
    IF s # <<>> /\ s[Len(s)] \in Whitespace
    THEN TrimEnd(SubSeq(s, 1, Len(s) - 1)) ELSE s

\* s.trim()
Trim(s) == TrimEnd(TrimStart(s))

\* s.indexOf(c) + 1: the 1-based position of the first c, 0 when there is none
IndexOf(s, c) ==
    LET I == {i \in 1..Len(s) : s[i] = c}
    IN  IF I = {} THEN 0 ELSE CHOOSE i \in I : \A j \in I : i <= j

\* s.split(c): the pieces between the occurrences of c, empty pieces included
RECURSIVE Split(_, _)
Split(s, c) ==
    IF IndexOf(s, c) = 0 THEN <<s>>
    ELSE <<SubSeq(s, 1, IndexOf(s, c) - 1)>>
            \o Split(SubSeq(s, IndexOf(s, c) + 1, Len(s)), c)

\* parts.join(sep)
RECURSIVE Join(_, _)
Join(parts, sep) ==
    IF parts = <<>> THEN EmptyStr
    ELSE IF Len(parts) = 1 THEN parts[1]
    ELSE parts[1] \o sep \o Join(Tail(parts), sep)

UpperCaseLetters ==
    <<"A", "B", "C", "D", "E", "F", "G", "H", "I", "J", "K", "L", "M", "N", "O",
      "P", "Q", "R", "S", "T", "U", "V", "W", "X", "Y", "Z">>

LowerCaseLetters ==
    <<"a", "b", "c", "d", "e", "f", "g", "h", "i", "j", "k", "l", "m", "n", "o",
      "p", "q", "r", "s", "t", "u", "v", "w", "x", "y", "z">>

\* s.toLowerCase(), on the letters A to Z
toLowerCase(s) ==
    [i \in 1..Len(s) |->
        IF \E n \in 1..26 : UpperCaseLetters[n] = s[i]
        THEN LowerCaseLetters[CHOOSE n \in 1..26 : UpperCaseLetters[n] = s[i]]
        ELSE s[i]]

IsLetter(c) ==
    \E n \in 1..26 : c = UpperCaseLetters[n] \/ c = LowerCaseLetters[n]

\* the five replacements of escapeHtml, "&" first
HtmlEntities ==
    << [char |-> "&", entity |-> <<"&", "a", "m", "p", ";">>],
       [char |-> "<", entity |-> <<"&", "l", "t", ";">>],
       [char |-> ">", entity |-> <<"&", "g", "t", ";">>],
       [char |-> "\"", entity |-> <<"&", "q", "u", "o", "t", ";">>],
       [char |-> "'", entity |-> <<"&", "#", "0", "3", "9", ";">>] >>

RECURSIVE escapeHtml(_)
escapeHtml(str) ==
    IF str = <<>> THEN EmptyStr
    ELSE (IF \E n \in 1..Len(HtmlEntities) : HtmlEntities[n].char = Head(str)
          THEN HtmlEntities[CHOOSE n \in 1..Len(HtmlEntities) :
                               HtmlEntities[n].char = Head(str)].entity
          ELSE <<Head(str)>>)
         \o escapeHtml(Tail(str))

PreTag == <<"<", "p", "r", "e">>

\* the text content of the body the HTML parser builds: a tag opens with "<"
\* and a letter or "/" and runs to the next ">", a line feed right after a
\* <pre> start tag is dropped, the five entities are decoded
RECURSIVE TextContent(_)
TextContent(html) ==
    IF html = <<>> THEN EmptyStr
    ELSE IF Head(html) = "<" /\ Len(html) >= 2
            /\ (IsLetter(html[2]) \/ html[2] = "/")
    THEN LET close == IndexOf(html, ">")
             rest == SubSeq(html, close + 1, Len(html))
             isPre == /\ StartsWith(toLowerCase(html), PreTag)
                      /\ (html[Len(PreTag) + 1] \in Whitespace \cup {">"})
         IN  IF close = 0 THEN EmptyStr
             ELSE IF isPre /\ rest # <<>> /\ Head(rest) = "\n"
             THEN TextContent(Tail(rest))
             ELSE TextContent(rest)
    ELSE IF \E n \in 1..Len(HtmlEntities) : StartsWith(html, HtmlEntities[n].entity)
    THEN LET n == CHOOSE k \in 1..Len(HtmlEntities) :
                      StartsWith(html, HtmlEntities[k].entity)
         IN  <<HtmlEntities[n].char>>
                \o TextContent(SubSeq(html, Len(HtmlEntities[n].entity) + 1, Len(html)))
    ELSE <<Head(html)>> \o TextContent(Tail(html))

\* new DOMParser().parseFromString(html, 'text/html').body.textContent || "":
\* white space before the first tag or text comes before the body and is
\* dropped by the parser
stripHtml(html) == TextContent(TrimStart(html))

\* the loop with ".." kept as a segment when there is nothing to pop
RECURSIVE WalkPartsKeepingDotDot(_, _)
WalkPartsKeepingDotDot(currentParts, newParts) ==
    IF newParts = <<>> THEN currentParts
    ELSE WalkPartsKeepingDotDot(
            IF Head(newParts) = <<".", ".">> /\ currentParts # <<>>
            THEN SubSeq(currentParts, 1, Len(currentParts) - 1)
            ELSE IF Head(newParts) = Dot THEN currentParts
            ELSE Append(currentParts, Head(newParts)),
            Tail(newParts))

\* the loop of normalizePath and of resolvePath: ".." pops, "." is skipped
RECURSIVE WalkParts(_, _)
WalkParts(currentParts, newParts) ==
    IF newParts = <<>> THEN currentParts
    ELSE WalkParts(
            IF Head(newParts) = <<".", ".">>
            THEN SubSeq(currentParts, 1, Len(currentParts) - 1)
            ELSE IF Head(newParts) = Dot THEN currentParts
            ELSE Append(currentParts, Head(newParts)),
            Tail(newParts))

normalizePath(path) == Slash \o Join(WalkParts(<<>>, PathParts(path)), Slash)

\* resolvePath starting from the current directory for every input
resolvePathFromCwd(wd, path) ==
    IF Falsy(path) \/ path = Dot THEN wd
    ELSE Slash \o Join(WalkParts(PathParts(wd), PathParts(path)), Slash)

resolvePath(wd, path) ==
    IF Falsy(path) \/ path = Dot THEN wd
    ELSE IF StartsWith(path, Slash) THEN normalizePath(path)
    ELSE Slash \o Join(WalkParts(PathParts(wd), PathParts(path)), Slash)

\* `<span class="text-red-400">${message}</span>`
RedSpan(message) ==
    
    <<"<", "s", "p", "a", "n", " ", "c", "l", "a", "s", "s", "=", "\"", "t",
      "e", "x", "t", "-", "r", "e", "d", "-", "4", "0", "0", "\"", ">">> \o message \o <<"<", "/", "s", "p", "a", "n", ">">>

----------------------------------------------------------------------------
(* The terminal: parsing and the commands *)

\* parsePipesAndRedirection(command)
parsePipesAndRedirection(command) ==
    LET gt == IndexOf(command, ">")
        mainCommand == IF gt = 0 THEN command ELSE Trim(SubSeq(command, 1, gt - 1))
        stages == Split(mainCommand, "|")
    IN  [commands |-> [n \in 1..Len(stages) |-> Trim(stages[n])],
         redirectTo |-> IF gt = 0 THEN NullStr
                        ELSE Trim(SubSeq(command, gt + 1, Len(command)))]

\* for (let i = 0; i < 4; i++) in ping
PingCount == 4

\* textToCount.split('\n').length
lineCount(text) == Cardinality({i \in 1..Len(text) : text[i] = "\n"}) + 1

\* the word count taken as the number of pieces between single spaces
wordCountBySpaces(text) == Cardinality({i \in 1..Len(text) : text[i] = " "}) + 1

\* textToCount.trim().split(/\s+/).filter(Boolean).length
wordCount(text) ==
    Cardinality({i \in 1..Len(text) :
                    /\ text[i] \notin Whitespace
                    /\ (i = 1 \/ text[i - 1] \in Whitespace)})

\* what a call of executeSingleCommand did up to its return or its first await:
\* the signals' values, the tree call's outcome ("none" when it made none), the
\* output, and what the call is waiting for
Executed(fs, flag, r, wd, out, wait) ==
    [fs |-> fs, flag |-> flag, ret |-> r, cwd |-> wd, out |-> out, wait |-> wait]

\* executeSingleCommand(cmd, args, stdin), for the commands echo, pwd, cd, cat,
\* rm, wc, ping, ipconfig and the default branch
executeSingleCommand(fs, flag, wd, cmd, args, stdin) ==
    LET name == toLowerCase(cmd)
        arg0 == Arg(args, 1)
    IN  IF name = <<"e", "c", "h", "o">>
        THEN Executed(fs, flag, "none", wd, escapeHtml(Join(args, <<" ">>)), "ready")
        ELSE IF name = <<"p", "w", "d">>
        THEN Executed(fs, flag, "none", wd, wd, "ready")
        ELSE IF name = <<"c", "d">>
        THEN LET targetPath == resolvePath(wd, IF Falsy(arg0) THEN Slash ELSE arg0)
             IN  IF IsDir(getNode(fs, targetPath))
                 THEN Executed(fs, flag, "none", targetPath, EmptyStr, "ready")
                 ELSE Executed(fs, flag, "none", wd,
                         RedSpan(
    <<"c", "d", ":", " ", "n", "o", " ", "s", "u", "c", "h", " ", "f", "i",
      "l", "e", " ", "o", "r", " ", "d", "i", "r", "e", "c", "t", "o", "r",
      "y", ":", " ">>
                                    \o Interpolate(arg0)),
                         "ready")
        ELSE IF name = <<"c", "a", "t">>
        THEN IF Falsy(arg0)
             THEN Executed(fs, flag, "none", wd, 
    <<"u", "s", "a", "g", "e", ":", " ", "c", "a", "t", " ", "[", "f", "i",
      "l", "e", "]">>, "ready")
             ELSE LET node == getNode(fs, resolvePath(wd, arg0)) IN
                  IF IsFile(node)
                  THEN Executed(fs, flag, "none", wd,
                          
    <<"<", "p", "r", "e", " ", "c", "l", "a", "s", "s", "=", "\"", "w", "h",
      "i", "t", "e", "s", "p", "a", "c", "e", "-", "p", "r", "e", "-", "w",
      "r", "a", "p", "\"", ">">>
                              \o escapeHtml(node.content) \o <<"<", "/", "p", "r", "e", ">">>,
                          "ready")
                  ELSE IF IsDir(node)
                  THEN Executed(fs, flag, "none", wd,
                          RedSpan(<<"c", "a", "t", ":", " ">> \o arg0 \o 
    <<":", " ", "I", "s", " ", "a", " ", "d", "i", "r", "e", "c", "t", "o",
      "r", "y">>),
                          "ready")
                  ELSE Executed(fs, flag, "none", wd,
                          RedSpan(<<"c", "a", "t", ":", " ">> \o arg0
                                     \o 
    <<":", " ", "N", "o", " ", "s", "u", "c", "h", " ", "f", "i", "l", "e",
      " ", "o", "r", " ", "d", "i", "r", "e", "c", "t", "o", "r", "y">>),
                          "ready")
        ELSE IF name = <<"r", "m">>
        THEN IF Falsy(arg0)
             THEN Executed(fs, flag, "none", wd,
                     
    <<"u", "s", "a", "g", "e", ":", " ", "r", "m", " ", "[", "f", "i", "l",
      "e", "_", "o", "r", "_", "d", "i", "r", "e", "c", "t", "o", "r", "y",
      "]">>, "ready")
             ELSE LET d == deleteNode(fs, flag, resolvePath(wd, arg0)) IN
                  Executed(d.fs, d.flag, d.ret, wd,
                     IF d.ret = "true" THEN EmptyStr
                     ELSE RedSpan(
    <<"r", "m", ":", " ", "c", "a", "n", "n", "o", "t", " ", "r", "e", "m",
      "o", "v", "e", " ", "'">> \o arg0
                                     \o 
    <<"'", ":", " ", "N", "o", " ", "s", "u", "c", "h", " ", "f", "i", "l",
      "e", " ", "o", "r", " ", "d", "i", "r", "e", "c", "t", "o", "r", "y">>),
                     "ready")
        ELSE IF name = <<"w", "c">>
        THEN LET node == getNode(fs, resolvePath(wd, arg0))
                 fromFile == IF Falsy(arg0) \/ ~IsFile(node) THEN NullStr
                             ELSE node.content
                 textToCount == IF Falsy(stdin) THEN fromFile ELSE stdin
             IN  IF textToCount = NullStr
                 THEN Executed(fs, flag, "none", wd,
                         <<"w", "c", ":", " ">> \o Interpolate(arg0)
                            \o 
    <<":", " ", "N", "o", " ", "s", "u", "c", "h", " ", "f", "i", "l", "e",
      " ", "o", "r", " ", "d", "i", "r", "e", "c", "t", "o", "r", "y">>,
                         "ready")
                 ELSE Executed(fs, flag, "none", wd,
                         NatToStr(lineCount(textToCount)) \o <<" ">>
                            \o NatToStr(wordCount(textToCount)) \o <<" ">>
                            \o NatToStr(Len(textToCount)),
                         "ready")
        ELSE IF name = <<"p", "i", "n", "g">>
        THEN Executed(fs, flag, "none", wd, EmptyStr, "timer")
        ELSE IF name = <<"i", "p", "c", "o", "n", "f", "i", "g">>
        THEN Executed(fs, flag, "none", wd, EmptyStr, "http")
        ELSE Executed(fs, flag, "none", wd,
                RedSpan(
    <<"C", "o", "m", "m", "a", "n", "d", " ", "n", "o", "t", " ", "f", "o",
      "u", "n", "d", ":", " ">> \o escapeHtml(cmd)), "ready")

\* the case labels of the switch of executeSingleCommand
CommandNames ==
    { <<"h", "e", "l", "p">>, <<"d", "a", "t", "e">>, <<"e", "c", "h", "o">>, <<"n", "e", "o", "f", "e", "t", "c", "h">>, <<"p", "w", "d">>, <<"l", "s">>,
      <<"c", "d">>, <<"c", "a", "t">>, <<"m", "k", "d", "i", "r">>, <<"t", "o", "u", "c", "h">>, <<"r", "m">>, <<"m", "v">>, <<"c", "p">>,
      <<"o", "p", "e", "n">>, <<"h", "i", "s", "t", "o", "r", "y">>, <<"u", "n", "a", "m", "e">>, <<"w", "h", "o", "a", "m", "i">>, <<"u", "p", "t", "i", "m", "e">>,
      <<"g", "r", "e", "p">>, <<"w", "c">>, <<"p", "i", "n", "g">>, <<"i", "p", "c", "o", "n", "f", "i", "g">>, <<"c", "o", "w", "s", "a", "y">>,
      <<"f", "o", "r", "t", "u", "n", "e">> }

\* the text of the default branch
CommandNotFound == 
    <<"C", "o", "m", "m", "a", "n", "d", " ", "n", "o", "t", " ", "f", "o",
      "u", "n", "d", ":", " ">>

\* a line of the output log
Line(type, html) == [type |-> type, html |-> html]

\* an activation of runCommand between two of its awaits: the stages, the
\* redirection target, the index i of the stage it awaits, stdin and lastOutput,
\* what the stage is waiting for, the stage's output so far, ping's host and
\* the number of its replies so far
Run(commands, redirectTo) ==
    [commands |-> commands, redirectTo |-> redirectTo, i |-> 1,
     stdin |-> EmptyStr, lastOutput |-> EmptyStr,
     wait |-> "ready", out |-> EmptyStr, host |-> EmptyStr, replies |-> 0]

Done == [wait |-> "done"]

\* the values after a piece of runCommand, and the activation (Done when it
\* returned)
Ran(fs, flag, r, wd, log, run) ==
    [fs |-> fs, flag |-> flag, ret |-> r, cwd |-> wd, lines |-> log, run |-> run]

\* the body of the loop without the test for clear: the stage is handed to
\* executeSingleCommand like any other
RunStageWithoutClear(fs, flag, r, wd, log, run) ==
    LET words == Split(Trim(run.commands[run.i]), " ")
        cmd == Head(words)
        args == Tail(words)
        e == executeSingleCommand(fs, flag, wd, cmd, args, run.stdin)
    IN  Ran(e.fs, e.flag, IF e.ret = "none" THEN r ELSE e.ret, e.cwd, log,
            [run EXCEPT !.wait = e.wait, !.out = e.out,
                        !.host = IF e.wait # "timer" THEN EmptyStr
                                 ELSE IF Falsy(Arg(args, 1)) THEN <<"l", "o", "c", "a", "l", "h", "o", "s", "t">>
                                 ELSE Arg(args, 1),
                        !.replies = 0])

\* the body of the loop with the current directory left as it was, whatever the
\* stage did
RunStageKeepingCwd(fs, flag, r, wd, log, run) ==
    LET words == Split(Trim(run.commands[run.i]), " ")
        cmd == Head(words)
        args == Tail(words)
        e == executeSingleCommand(fs, flag, wd, cmd, args, run.stdin)
    IN  IF toLowerCase(cmd) = <<"c", "l", "e", "a", "r">>
        THEN Ran(fs, flag, r, wd, <<>>, Done)
        ELSE Ran(e.fs, e.flag, IF e.ret = "none" THEN r ELSE e.ret, wd, log,
                 [run EXCEPT !.wait = e.wait, !.out = e.out,
                             !.host = IF e.wait # "timer" THEN EmptyStr
                                      ELSE IF Falsy(Arg(args, 1)) THEN <<"l", "o", "c", "a", "l", "h", "o", "s", "t">>
                                      ELSE Arg(args, 1),
                             !.replies = 0])

\* the body of the for loop of runCommand for stage run.i, up to the await
RunStage(fs, flag, r, wd, log, run) ==
    LET words == Split(Trim(run.commands[run.i]), " ")
        cmd == Head(words)
        args == Tail(words)
        e == executeSingleCommand(fs, flag, wd, cmd, args, run.stdin)
    IN  IF toLowerCase(cmd) = <<"c", "l", "e", "a", "r">>
        THEN Ran(fs, flag, r, wd, <<>>, Done)
        ELSE Ran(e.fs, e.flag, IF e.ret = "none" THEN r ELSE e.ret, e.cwd, log,
                 [run EXCEPT !.wait = e.wait, !.out = e.out,
                             !.host = IF e.wait # "timer" THEN EmptyStr
                                      ELSE IF Falsy(Arg(args, 1)) THEN <<"l", "o", "c", "a", "l", "h", "o", "s", "t">>
                                      ELSE Arg(args, 1),
                             !.replies = 0])

\* the end of runCommand with the output appended to the log whether or not it
\* was redirected
OutputEchoingRedirect(fs, flag, r, wd, log, redirectTo, lastOutput) ==
    LET filePath == resolvePath(wd, redirectTo)
        w == writeFile(fs, flag, filePath, stripHtml(lastOutput))
    IN  IF ~Falsy(redirectTo)
        THEN Ran(w.fs, w.flag, w.ret, wd,
                 Append(log, Line("response", lastOutput)), Done)
        ELSE Ran(fs, flag, r, wd,
                 IF lastOutput # EmptyStr
                 THEN Append(log, Line("response", lastOutput)) ELSE log,
                 Done)

\* the end of runCommand, after the loop: the redirection or the output line
Output(fs, flag, r, wd, log, redirectTo, lastOutput) ==
    IF ~Falsy(redirectTo)
    THEN LET filePath == resolvePath(wd, redirectTo)
             w == writeFile(fs, flag, filePath, stripHtml(lastOutput))
             node == getNode(w.fs, filePath)
             errorMsg ==
                 IF IsDir(node) THEN redirectTo \o 
    <<" ", "i", "s", " ", "a", " ", "d", "i", "r", "e", "c", "t", "o", "r",
      "y", ".">>
                 ELSE IF ~IsDir(getNode(w.fs, BeforeLast(filePath, "/")))
                 THEN 
    <<"D", "i", "r", "e", "c", "t", "o", "r", "y", " ", "d", "o", "e", "s",
      " ", "n", "o", "t", " ", "e", "x", "i", "s", "t", ".">>
                 ELSE 
    <<"C", "o", "u", "l", "d", " ", "n", "o", "t", " ", "w", "r", "i", "t",
      "e", " ", "t", "o", " ">> \o redirectTo \o <<".">>
         IN  Ran(w.fs, w.flag, w.ret, wd,
                 IF w.ret = "true" THEN log
                 ELSE Append(log, Line("response", RedSpan(errorMsg))),
                 Done)
    ELSE Ran(fs, flag, r, wd,
             IF lastOutput # EmptyStr
             THEN Append(log, Line("response", lastOutput)) ELSE log,
             Done)

\* runCommand giving up after a stage that was not found: it prints the stage's
\* output and returns
ResumeStoppingAtNotFound(fs, flag, r, wd, log, run) ==
    LET next == [run EXCEPT !.lastOutput = run.out, !.stdin = run.out, !.i = @ + 1]
    IN  IF run.out = RedSpan(CommandNotFound
                                \o escapeHtml(Head(Split(Trim(run.commands[run.i]), " "))))
        THEN Ran(fs, flag, r, wd, Append(log, Line("response", run.out)), Done)
        ELSE IF next.i <= Len(next.commands)
        THEN RunStage(fs, flag, r, wd, log, next)
        ELSE Output(fs, flag, r, wd, log, next.redirectTo, next.lastOutput)

\* runCommand from the resolution of the awaited stage on: the assignments to
\* lastOutput and stdin, then the next stage or the end
Resume(fs, flag, r, wd, log, run) ==
    LET next == [run EXCEPT !.lastOutput = run.out, !.stdin = run.out, !.i = @ + 1]
    IN  IF next.i <= Len(next.commands)
        THEN RunStage(fs, flag, r, wd, log, next)
        ELSE Output(fs, flag, r, wd, log, next.redirectTo, next.lastOutput)

\* the literals of ping and ipconfig
Reply == <<"R", "e", "p", "l", "y", " ", "f", "r", "o", "m", " ">>
TimeIs == <<":", " ", "t", "i", "m", "e", "=">>
PublicIpIs == 
    <<"P", "u", "b", "l", "i", "c", " ", "I", "P", " ", "A", "d", "d", "r",
      "e", "s", "s", ":", " ">>
NoIp == 
    <<"C", "o", "u", "l", "d", " ", "n", "o", "t", " ", "r", "e", "t", "r",
      "i", "e", "v", "e", " ", "I", "P", " ", "a", "d", "d", "r", "e", "s",
      "s", ".">>

WelcomeLine ==
    
    <<"W", "e", "l", "c", "o", "m", "e", " ", "t", "o", " ", "B", "a", "n",
      "a", "n", "a", " ", "O", "S", " ", "T", "e", "r", "m", "i", "n", "a",
      "l", ".", " ", "T", "y", "p", "e", " ", "'", "h", "e", "l", "p", "'",
      " ", "f", "o", "r", " ", "c", "o", "m", "m", "a", "n", "d", "s", ".">>

----------------------------------------------------------------------------
(* Persistence: JSON.stringify and JSON.parse on the tree, and the item of  *)
(* localStorage.  A parsed object is a function from its keys to its        *)
(* members' values; every value carries its kind.                           *)

\* the two-character escapes of JSON and the characters they stand for
JsonEscapes ==
    << [char |-> "\"", letter |-> "\""],
       [char |-> "\\", letter |-> "\\"],
       [char |-> "\n", letter |-> "n"],
       [char |-> "\t", letter |-> "t"],
       [char |-> "\r", letter |-> "r"],
       [char |-> "\f", letter |-> "f"] >>

\* one character as JSON.stringify writes it inside a string
EscapeChar(c) ==
    IF \E n \in 1..Len(JsonEscapes) : JsonEscapes[n].char = c
    THEN <<"\\", JsonEscapes[CHOOSE n \in 1..Len(JsonEscapes) :
                                JsonEscapes[n].char = c].letter>>
    ELSE <<c>>

\* the text between the quotes of JSON.stringify(text): the characters' escapes
\* one after the other, computed by halves
RECURSIVE EscapeJson(_)
EscapeJson(text) ==
    IF text = <<>> THEN EmptyStr
    ELSE IF Len(text) = 1 THEN EscapeChar(text[1])
    ELSE LET half == Len(text) \div 2 IN
         EscapeJson(SubSeq(text, 1, half))
           \o EscapeJson(SubSeq(text, half + 1, Len(text)))

\* the text between quotes with nothing escaped
StringifyStringRaw(text) == <<"\"">> \o text \o <<"\"">>

\* JSON.stringify(text) for a string
StringifyString(text) == <<"\"">> \o EscapeJson(text) \o <<"\"">>

\* "key":
Member(key) == StringifyString(key) \o <<":">>

\* the elements of a set of strings in a sequence (the order of enumeration of
\* an object's own keys; what is parsed back does not depend on it)
RECURSIVE KeySeq(_)
KeySeq(keys) ==
    IF keys = {} THEN <<>>
    ELSE LET k == CHOOSE x \in keys : TRUE IN <<k>> \o KeySeq(keys \ {k})

\* JSON.stringify(node) for a node of the tree: the members in the order the
\* properties were created, name, path, type, children or content, size, and a
\* content assigned to a directory last
RECURSIVE StringifyNode(_)
StringifyNode(node) ==
    LET keys == IF IsDir(node) THEN KeySeq(DOMAIN node.children) ELSE <<>>
        children ==
            <<"{">>
              \o Join([n \in 1..Len(keys) |->
                          Member(keys[n]) \o StringifyNode(node.children[keys[n]])],
                      <<",">>)
              \o <<"}">>
    IN  <<"{">> \o Member(<<"n", "a", "m", "e">>) \o StringifyString(node.name)
          \o <<",">> \o Member(<<"p", "a", "t", "h">>) \o StringifyString(node.path)
          \o <<",">> \o Member(<<"t", "y", "p", "e">>)
          \o StringifyString(IF IsDir(node) THEN <<"d", "i", "r", "e", "c", "t", "o", "r", "y">> ELSE <<"f", "i", "l", "e">>)
          \o (IF IsDir(node)
              THEN <<",">> \o Member(<<"c", "h", "i", "l", "d", "r", "e", "n">>) \o children
              ELSE <<",">> \o Member(<<"c", "o", "n", "t", "e", "n", "t">>) \o StringifyString(node.content))
          \o <<",">> \o Member(<<"s", "i", "z", "e">>) \o NatToStr(node.size)
          \o (IF IsDir(node) /\ "content" \in DOMAIN node
              THEN <<",">> \o Member(<<"c", "o", "n", "t", "e", "n", "t">>) \o StringifyString(node.content)
              ELSE EmptyStr)
          \o <<"}">>

\* the white space JSON.parse skips between tokens
JsonWhitespace == {" ", "\n", "\t", "\r"}

RECURSIVE SkipWhitespace(_, _)
SkipWhitespace(text, i) ==
    IF i <= Len(text) /\ text[i] \in JsonWhitespace THEN SkipWhitespace(text, i + 1)
    ELSE i

\* a parse that failed (SyntaxError), and one that produced value and goes on at
\* position next
SyntaxError == [ok |-> FALSE]
Parsed(value, next) == [ok |-> TRUE, value |-> value, next |-> next]

JsonString(text) == [kind |-> "string", text |-> text]
JsonNumber(value) == [kind |-> "number", value |-> value]
JsonObject(members) == [kind |-> "object", members |-> members]

Digits == <<"0", "1", "2", "3", "4", "5", "6", "7", "8", "9">>
IsDigit(c) == \E d \in 1..10 : Digits[d] = c
DigitValue(c) == (CHOOSE d \in 1..10 : Digits[d] = c) - 1

\* the number of backslashes that stand immediately before position j of a
\* string literal whose first character is at position from
RECURSIVE BackslashRun(_, _, _)
BackslashRun(text, from, j) ==
    IF j - 1 >= from /\ text[j - 1] = "\\" THEN 1 + BackslashRun(text, from, j - 1)
    ELSE 0

\* position j is not the second character of an escape
Unescaped(text, from, j) == BackslashRun(text, from, j) % 2 = 0

\* position j is the backslash that begins an escape
EscapeStart(text, from, j) == text[j] = "\\" /\ Unescaped(text, from, j)

\* the position of the first quote in lo..hi that is not escaped, 0 when there
\* is none
RECURSIVE ClosingQuote(_, _, _, _)
ClosingQuote(text, from, lo, hi) ==
    IF lo > hi THEN 0
    ELSE IF lo = hi
    THEN (IF text[lo] = "\"" /\ Unescaped(text, from, lo) THEN lo ELSE 0)
    ELSE LET mid == (lo + hi) \div 2
             left == ClosingQuote(text, from, lo, mid)
         IN  IF left # 0 THEN left ELSE ClosingQuote(text, from, mid + 1, hi)

\* the characters the positions lo..hi of a string literal stand for; lo is not
\* the second character of an escape and hi is not the first of one
RECURSIVE Unescape(_, _, _, _)
Unescape(text, from, lo, hi) ==
    IF lo > hi THEN EmptyStr
    ELSE IF lo = hi THEN <<text[lo]>>
    ELSE IF hi = lo + 1
    THEN (IF EscapeStart(text, from, lo)
          THEN <<JsonEscapes[CHOOSE n \in 1..Len(JsonEscapes) :
                                JsonEscapes[n].letter = text[hi]].char>>
          ELSE <<text[lo], text[hi]>>)
    ELSE LET mid == (lo + hi) \div 2
             cut == IF EscapeStart(text, from, mid) THEN mid - 1 ELSE mid
         IN  Unescape(text, from, lo, cut) \o Unescape(text, from, cut + 1, hi)

\* the string literal whose first character is at position i, up to its closing
\* quote: a SyntaxError when it is not closed, holds an escape JSON does not
\* have, or a control character
ParseStringFrom(text, i) ==
    LET close == ClosingQuote(text, i, i, Len(text)) IN
    IF close = 0 THEN SyntaxError
    ELSE IF \E p \in i..(close - 1) :
               \/ text[p] \in {"\n", "\t", "\r", "\f"}
               \/ /\ EscapeStart(text, i, p)
                  /\ ~\E n \in 1..Len(JsonEscapes) : JsonEscapes[n].letter = text[p + 1]
    THEN SyntaxError
    ELSE Parsed(JsonString(Unescape(text, i, i, close - 1)), close + 1)

\* the digits of a number from position i on
RECURSIVE ParseNumberFrom(_, _, _)
ParseNumberFrom(text, i, acc) ==
    IF i <= Len(text) /\ IsDigit(text[i])
    THEN ParseNumberFrom(text, i + 1, acc * 10 + DigitValue(text[i]))
    ELSE Parsed(JsonNumber(acc), i)

RECURSIVE ParseValue(_, _)
RECURSIVE ParseMembers(_, _, _)

\* a value at position i: a string, a number or an object, the values a
\* stringified tree is made of
ParseValue(text, i) ==
    IF i > Len(text) THEN SyntaxError
    ELSE IF text[i] = "\"" THEN ParseStringFrom(text, i + 1)
    ELSE IF IsDigit(text[i]) THEN ParseNumberFrom(text, i, 0)
    ELSE IF text[i] = "{"
    THEN LET j == SkipWhitespace(text, i + 1) IN
         IF j <= Len(text) /\ text[j] = "}" THEN Parsed(JsonObject(NoChildren), j + 1)
         ELSE ParseMembers(text, j, NoChildren)
    ELSE SyntaxError

\* the members of an object from position i on, up to its closing brace; acc
\* holds the members read so far, a later member replacing an earlier one of the
\* same key
ParseMembers(text, i, acc) ==
    IF i > Len(text) \/ text[i] # "\"" THEN SyntaxError
    ELSE LET key == ParseStringFrom(text, i + 1) IN
         IF ~key.ok THEN SyntaxError
         ELSE LET colon == SkipWhitespace(text, key.next) IN
              IF colon > Len(text) \/ text[colon] # ":" THEN SyntaxError
              ELSE LET member == ParseValue(text, SkipWhitespace(text, colon + 1)) IN
                   IF ~member.ok THEN SyntaxError
                   ELSE LET members == (key.value.text :> member.value) @@ acc
                            after == SkipWhitespace(text, member.next)
                        IN  IF after > Len(text) THEN SyntaxError
                            ELSE IF text[after] = "}"
                            THEN Parsed(JsonObject(members), after + 1)
                            ELSE IF text[after] = ","
                            THEN ParseMembers(text, SkipWhitespace(text, after + 1),
                                              members)
                            ELSE SyntaxError

\* JSON.parse(text): one value and nothing after it
JsonParse(text) ==
    LET value == ParseValue(text, SkipWhitespace(text, 1)) IN
    IF value.ok /\ SkipWhitespace(text, value.next) = Len(text) + 1 THEN value
    ELSE SyntaxError

\* the keys of a node's properties
PropertyKeys ==
    [name |-> <<"n", "a", "m", "e">>, path |-> <<"p", "a", "t", "h">>,
     type |-> <<"t", "y", "p", "e">>, children |-> <<"c", "h", "i", "l", "d", "r", "e", "n">>,
     content |-> <<"c", "o", "n", "t", "e", "n", "t">>, size |-> <<"s", "i", "z", "e">>]

\* the node a parsed object is: its properties by name
RECURSIVE AsNode(_)
AsNode(object) ==
    LET members == object.members IN
    [property \in { p \in DOMAIN PropertyKeys : PropertyKeys[p] \in DOMAIN members } |->
        LET member == members[PropertyKeys[property]] IN
        IF property = "children"
        THEN [k \in DOMAIN member.members |-> AsNode(member.members[k])]
        ELSE IF property = "size" THEN member.value
        ELSE IF property = "type"
        THEN (IF member.text = <<"d", "i", "r", "e", "c", "t", "o", "r", "y">> THEN "directory"
              ELSE IF member.text = <<"f", "i", "l", "e">> THEN "file" ELSE "other")
        ELSE member.text]

\* loadFromLocalStorage(), item being what getItem returns (NullStr for null):
\* the parsed value, an object being the tree it describes
loadFromLocalStorage(item) ==
    IF Falsy(item) THEN initialFileSystem
    ELSE LET value == JsonParse(item) IN
         IF ~value.ok THEN initialFileSystem
         ELSE IF value.value.kind = "object" THEN AsNode(value.value)
         ELSE value.value

----------------------------------------------------------------------------

(* Inputs and bounds *)

MaxNodes == 10

Notes == <<"N", "o", "t", "e", "s">>
Sub == <<"S", "u", "b">>
Missing == <<"M", "i", "s", "s", "i", "n", "g">>
ContentX == <<"x">>
Constructor == <<"c", "o", "n", "s", "t", "r", "u", "c", "t", "o", "r">>

\* the absolute path with the given segments
RECURSIVE P(_)
P(parts) ==
    IF parts = <<>> THEN Slash
    ELSE Slash \o Head(parts) \o (IF Len(parts) > 1 THEN P(Tail(parts)) ELSE EmptyStr)

WritePaths ==
    { P(<<Documents, WelcomeTxt>>), P(<<System, ConfigSys>>), P(<<Missing>>),
      P(<<Documents>>), Slash }

CreateParents ==
    { P(<<Documents>>), P(<<System>>), P(<<Missing>>), P(<<System, Sub>>) }

CreateNames == { Sub }

DeletePaths ==
    { P(<<Documents, WelcomeTxt>>), P(<<System, ConfigSys>>), P(<<System>>),
      P(<<Documents, Sub>>), P(<<Documents, Constructor>>) }

RenamePaths ==
    { P(<<Documents, WelcomeTxt>>), P(<<System, ConfigSys>>), P(<<Documents>>) }

RenameNames == { Notes }

MoveSources ==
    { P(<<Documents, WelcomeTxt>>), P(<<System, ConfigSys>>), P(<<Documents>>),
      P(<<Notes>>) }

MoveDests == { P(<<Documents, Sub>>), P(<<Notes, Sub>>), Slash }

CopySources == { P(<<Documents, WelcomeTxt>>), P(<<Documents>>) }

CopyDests == { P(<<Documents, Sub>>), P(<<Documents>>) }

Contents == { ContentX }

MaxSiblingNodes == 11

Doc == <<"D", "o", "c">>

SiblingSources ==
    { P(<<Doc>>), P(<<Documents>>), P(<<Documents, WelcomeTxt>>), P(<<Missing>>) }

SiblingDests == { P(<<Doc>>), P(<<Documents>>), P(<<Desktop>>), P(<<Missing>>) }

MaxSegments == 3

DotDot == <<".", ".">>

\* the segments the path inputs are made of
PathSegments == { <<"a">>, Dot, DotDot, EmptyStr }

SegmentLists == UNION { [1..n -> PathSegments] : n \in 0..MaxSegments }

AbsoluteInputs == { Slash \o Join(l, Slash) : l \in SegmentLists }

RelativeInputs == { Join(l, Slash) : l \in SegmentLists } \ AbsoluteInputs

\* a text with a quote, a backslash and a line feed
QuotedText == 
    <<"s", "a", "y", " ", "\"", "h", "i", "\"", " ", "\\", " ", "t", "w", "i",
      "c", "e", "\n", "e", "n", "d">>

PersistContents == { QuotedText }

\* a file and a directory to write to
PersistPaths == { P(<<Documents, WelcomeTxt>>), P(<<Documents>>) }

\* what getItem returns when there is no snapshot to read: null for no item, an
\* empty text, and texts that do not parse
LostItems == { NullStr, EmptyStr, <<"{", "\"", "n", "a", "m", "e", "\"", ":">>, <<"o", "o", "p", "s">> }

MaxCommands == 2

\* Math.floor(Math.random() * 30) + 1 of ping: a value of 1..30; the reply
\* carries it as text and no command reads it
PingTimes == {30}

\* what the address service answers
PublicIps == { <<"2", "0", "3", ".", "0", ".", "1", "1", "3", ".", "7">> }

CatWelcomeWc == 
    <<"c", "a", "t", " ", "/", "D", "o", "c", "u", "m", "e", "n", "t", "s",
      "/", "w", "e", "l", "c", "o", "m", "e", ".", "t", "x", "t", " ", "|",
      " ", "w", "c">>
CatConfigToWelcome == 
    <<"c", "a", "t", " ", "/", "S", "y", "s", "t", "e", "m", "/", "c", "o",
      "n", "f", "i", "g", ".", "s", "y", "s", " ", ">", " ", "/", "D", "o",
      "c", "u", "m", "e", "n", "t", "s", "/", "w", "e", "l", "c", "o", "m",
      "e", ".", "t", "x", "t">>
EchoToDirectory == 
    <<"e", "c", "h", "o", " ", "x", " ", ">", " ", "/", "D", "o", "c", "u",
      "m", "e", "n", "t", "s">>
EchoToProtected == 
    <<"e", "c", "h", "o", " ", "x", " ", ">", " ", "/", "S", "y", "s", "t",
      "e", "m", "/", "c", "o", "n", "f", "i", "g", ".", "s", "y", "s">>
EchoToMissingParent == 
    <<"e", "c", "h", "o", " ", "x", " ", ">", " ", "/", "M", "i", "s", "s",
      "i", "n", "g", "/", "f">>
EchoToRelative == 
    <<"e", "c", "h", "o", " ", "x", " ", ">", " ", "w", "e", "l", "c", "o",
      "m", "e", ".", "t", "x", "t">>
PingLine == <<"p", "i", "n", "g">>
IpconfigLine == <<"i", "p", "c", "o", "n", "f", "i", "g">>
CdDocuments == <<"c", "d", " ", "D", "o", "c", "u", "m", "e", "n", "t", "s">>
RmDocuments == <<"r", "m", " ", "/", "D", "o", "c", "u", "m", "e", "n", "t", "s">>
ClearLine == <<"p", "w", "d", " ", "|", " ", "C", "L", "E", "A", "R">>
UnknownLine == <<"n", "o", "p", "e">>

CdClearEcho == 
    <<"c", "d", " ", "D", "o", "c", "u", "m", "e", "n", "t", "s", " ", "|",
      " ", "C", "l", "e", "a", "r", " ", "|", " ", "e", "c", "h", "o", " ",
      "x", " ", ">", " ", "w", "e", "l", "c", "o", "m", "e", ".", "t", "x",
      "t">>
ClearRm == 
    <<"c", "l", "e", "a", "r", " ", "|", " ", "r", "m", " ", "/", "D", "o",
      "c", "u", "m", "e", "n", "t", "s">>
UnknownWc == <<"n", "o", "p", "e", " ", "|", " ", "w", "c">>
UnknownToWelcome == 
    <<"n", "o", "p", "e", " ", ">", " ", "/", "D", "o", "c", "u", "m", "e",
      "n", "t", "s", "/", "w", "e", "l", "c", "o", "m", "e", ".", "t", "x",
      "t">>
\* a command line of the action bus, whose text holds a line feed
EchoLinesWc == 
    <<"e", "c", "h", "o", " ", "a", " ", "b", "\n", "c", " ", "|", " ", "w",
      "c">>
CdAbsolute == 
    <<"c", "d", " ", "/", "D", "o", "c", "u", "m", "e", "n", "t", "s", "/",
      ".", "/", ".", ".", "/", "D", "e", "s", "k", "t", "o", "p">>
CdUp == <<"c", "d", " ", ".", ".">>
CdHome == <<"c", "d">>
CdDot == <<"c", "d", " ", ".">>
CdMissing == <<"c", "d", " ", "M", "i", "s", "s", "i", "n", "g">>
CdDesktop == 
    <<"c", "d", " ", ".", ".", "/", "D", "e", "s", "k", "t", "o", "p", "/",
      "/">>
CdRelative == 
    <<"c", "d", " ", ".", ".", "/", ".", ".", "/", "D", "o", "w", "n", "l",
      "o", "a", "d", "s">>

CommandLines ==
    { CatWelcomeWc, CatConfigToWelcome, EchoToDirectory, EchoToProtected,
      EchoToMissingParent, EchoToRelative, PingLine, IpconfigLine, CdDocuments,
      RmDocuments, ClearLine, UnknownLine, CdClearEcho, ClearRm, UnknownWc,
      UnknownToWelcome, EchoLinesWc }

CdLines ==
    { CdDocuments, CdAbsolute, CdRelative, CdUp, CdHome, CdDot, CdMissing,
      CdDesktop }

----------------------------------------------------------------------------
(* The copilot (CopilotComponent): chat sessions and their messages *)

\* the value null of activeSessionId; session ids are readings of Date.now()
NullId == 0

Providers == {"gemini", "openai"}

Hello ==
    
    <<"H", "e", "l", "l", "o", "!", " ", "I", " ", "a", "m", " ", "B", "a",
      "n", "a", "n", "a", " ", "C", "o", "p", "i", "l", "o", "t", ".", " ",
      "H", "o", "w", " ", "c", "a", "n", " ", "I", " ", "a", "s", "s", "i",
      "s", "t", " ", "y", "o", "u", " ", "w", "i", "t", "h", " ", "B", "a",
      "n", "a", "n", "a", " ", "O", "S", " ", "t", "o", "d", "a", "y", "?">>

NewChatTitle == <<"N", "e", "w", " ", "C", "h", "a", "t">>

GeminiNotConfigured == 
    <<"G", "e", "m", "i", "n", "i", " ", "A", "P", "I", " ", "k", "e", "y",
      " ", "i", "s", " ", "n", "o", "t", " ", "c", "o", "n", "f", "i", "g",
      "u", "r", "e", "d", ".">>

OpenAiNotConfigured == 
    <<"O", "p", "e", "n", "A", "I", " ", "A", "P", "I", " ", "k", "e", "y",
      " ", "i", "s", " ", "n", "o", "t", " ", "c", "o", "n", "f", "i", "g",
      "u", "r", "e", "d", ".">>

UnknownError == 
    <<"A", "n", " ", "u", "n", "k", "n", "o", "w", "n", " ", "e", "r", "r",
      "o", "r", " ", "o", "c", "c", "u", "r", "r", "e", "d", ".">>

\* the message of the TypeError that undefined.trim() raises
TrimOfUndefined == 
    <<"C", "a", "n", "n", "o", "t", " ", "r", "e", "a", "d", " ", "p", "r",
      "o", "p", "e", "r", "t", "i", "e", "s", " ", "o", "f", " ", "u", "n",
      "d", "e", "f", "i", "n", "e", "d", " ", "(", "r", "e", "a", "d", "i",
      "n", "g", " ", "'", "t", "r", "i", "m", "'", ")">>

\* the error handleApiError raises for status 500 with the body "x"
ServerError == 
    <<"O", "p", "e", "n", "A", "I", " ", "A", "P", "I", " ", "e", "r", "r",
      "o", "r", ":", " ", "5", "0", "0", " ", "-", " ", "x">>

QuotaHint ==
    
    <<" ", "Y", "o", "u", " ", "c", "o", "u", "l", "d", " ", "t", "r", "y",
      " ", "s", "w", "i", "t", "c", "h", "i", "n", "g", " ", "t", "o", " ",
      "a", "n", "o", "t", "h", "e", "r", " ", "a", "v", "a", "i", "l", "a",
      "b", "l", "e", " ", "p", "r", "o", "v", "i", "d", "e", "r", " ", "i",
      "n", " ", "s", "e", "t", "t", "i", "n", "g", "s", ",", " ", "s", "u",
      "c", "h", " ", "a", "s", ":", " ">>

\* the name of the provider that is not provider
OtherProviderName(provider) ==
    IF provider = "gemini" THEN <<"O", "p", "e", "n", "A", "I", " ", "G", "P", "T">> ELSE <<"G", "o", "o", "g", "l", "e", " ", "G", "e", "m", "i", "n", "i">>

Includes(s, sub) ==
    \E i \in 1..(Len(s) - Len(sub) + 1) : SubSeq(s, i, i + Len(sub) - 1) = sub

\* a message with a text; the image of every message is null
Message(sender, text) == [sender |-> sender, text |-> text]

ThinkingMessage == [sender |-> "bot", isThinking |-> TRUE]

IsThinkingMessage(m) == "isThinking" \in DOMAIN m /\ m.isThinking

NewSession(id) ==
    [id |-> id, title |-> NewChatTitle, messages |-> <<Message("bot", Hello)>>]

\* array.slice(0, -1)
DropLast(s) == IF s = <<>> THEN s ELSE SubSeq(s, 1, Len(s) - 1)

\* the session sessions.find(s => s.id === activeId), or Null
activeSession(sessions, activeId) ==
    IF activeId = NullId \/ \A i \in DOMAIN sessions : sessions[i].id # activeId
    THEN Null
    ELSE sessions[CHOOSE i \in DOMAIN sessions :
                     /\ sessions[i].id = activeId
                     /\ \A j \in 1..(i - 1) : sessions[j].id # activeId]

chatHistory(sessions, activeId) ==
    IF activeSession(sessions, activeId) = Null THEN <<>>
    ELSE activeSession(sessions, activeId).messages

updateMessages(sessions, sessionId, messages) ==
    [i \in DOMAIN sessions |->
        IF sessions[i].id = sessionId
        THEN [sessions[i] EXCEPT !.messages = messages]
        ELSE sessions[i]]

\* the sessions after processAiResponse(responseText), for a text without a
\* fenced json block: the pattern does not match and the text is the reply
processAiResponse(sessions, activeId, responseText) ==
    IF activeId = NullId THEN sessions
    ELSE updateMessages(sessions, activeId,
             Append(chatHistory(sessions, activeId),
                    Message("bot", Trim(responseText))))

\* the text handleError shows; others is the joined names of the other
\* providers that are available
FinalMessage(message, others) ==
    <<"E", "r", "r", "o", "r", ":", " ">> \o message
        \o IF /\ Includes(message, <<"q", "u", "o", "t", "a">>) \/ Includes(message, <<"r", "a", "t", "e", " ", "l", "i", "m", "i", "t">>)
              /\ others # EmptyStr
           THEN QuotaHint \o others \o <<".">>
           ELSE EmptyStr

\* the sessions after handleError(message)
handleError(sessions, activeId, message, others) ==
    IF activeId = NullId THEN sessions
    ELSE updateMessages(sessions, activeId,
             Append(DropLast(chatHistory(sessions, activeId)),
                    Message("bot", FinalMessage(message, others))))

\* the catch block of sendMessage for an error with message e.message
Caught(sessions, activeId, message, others) ==
    handleError(sessions, activeId,
                IF message = EmptyStr THEN UnknownError ELSE message, others)

\* the sessions after the two updates sendMessage makes before the request
Asked(sessions, activeId, message) ==
    LET withUser == updateMessages(sessions, activeId,
                        Append(chatHistory(sessions, activeId), Message("user", message)))
    IN  updateMessages(withUser, activeId,
            Append(chatHistory(withUser, activeId), ThinkingMessage))

\* the sessions after the reply is handled: the last message of the active
\* session is removed, then the reply is processed
Replied(sessions, activeId, responseText) ==
    processAiResponse(
        updateMessages(sessions, activeId, DropLast(chatHistory(sessions, activeId))),
        activeId, responseText)

\* title.replace(/"/g, '')
WithoutQuotes(s) == SelectSeq(s, LAMBDA c : c # "\"")

newChat(sessions, id) == <<NewSession(id)>> \o sessions

\* sessions.filter(s => s.id !== sessionId)
WithoutSession(sessions, sessionId) ==
    SelectSeq(sessions, LAMBDA s : s.id # sessionId)

\* an awaited request of sendMessage, and one of generateTitleForSession
ChatRequest(activeId, isNewChat, message, provider) ==
    [kind |-> "chat", activeId |-> activeId, isNewChat |-> isNewChat,
     message |-> message, provider |-> provider]

TitleRequest(sessionId) == [kind |-> "title", activeId |-> sessionId]

----------------------------------------------------------------------------

(* The state machine *)

Init ==
    /\ fileSystem = initialFileSystem
    /\ isCorrupted = FALSE
    /\ ret = "none"
    /\ lines = <<Line("response", WelcomeLine)>>
    /\ cwd = Slash
    /\ runs = [k \in {} |-> Done]
    /\ started = 0
    /\ storage = NullStr
    /\ chatSessions = newChat(<<>>, 1)
    /\ activeSessionId = 1
    /\ isLoading = FALSE
    /\ requests = [k \in {} |-> TitleRequest(NullId)]
    /\ sent = 0
    /\ clock = 1

\* the calls that add nodes are made while the tree stays within MaxNodes nodes
WriteFile ==
    \E path \in WritePaths, content \in Contents :
        LET r == writeFile(fileSystem, isCorrupted, path, content) IN
        /\ NodeCount(r.fs) <= MaxNodes
        /\ fileSystem' = r.fs
        /\ isCorrupted' = r.flag
        /\ ret' = r.ret
        /\ UNCHANGED <<terminal, storage, copilot>>

CreateDirectory ==
    \E parentPath \in CreateParents, dirName \in CreateNames :
        LET r == createDirectory(fileSystem, isCorrupted, parentPath, dirName) IN
        /\ NodeCount(r.fs) <= MaxNodes
        /\ fileSystem' = r.fs
        /\ isCorrupted' = r.flag
        /\ ret' = r.ret
        /\ UNCHANGED <<terminal, storage, copilot>>

CreateFile ==
    \E parentPath \in CreateParents, fileName \in CreateNames :
        LET r == createFile(fileSystem, isCorrupted, parentPath, fileName, EmptyStr) IN
        /\ NodeCount(r.fs) <= MaxNodes
        /\ fileSystem' = r.fs
        /\ isCorrupted' = r.flag
        /\ ret' = r.ret
        /\ UNCHANGED <<terminal, storage, copilot>>

DeleteNode ==
    \E path \in DeletePaths :
        LET r == deleteNode(fileSystem, isCorrupted, path) IN
        /\ fileSystem' = r.fs
        /\ isCorrupted' = r.flag
        /\ ret' = r.ret
        /\ UNCHANGED <<terminal, storage, copilot>>

RenameNode ==
    \E path \in RenamePaths, newName \in RenameNames :
        LET r == renameNode(fileSystem, isCorrupted, path, newName) IN
        /\ fileSystem' = r.fs
        /\ isCorrupted' = r.flag
        /\ ret' = r.ret
        /\ UNCHANGED <<terminal, storage, copilot>>

MoveNode ==
    \E sourcePath \in MoveSources, newParentPath \in MoveDests :
        LET r == moveNode(fileSystem, isCorrupted, sourcePath, newParentPath) IN
        /\ fileSystem' = r.fs
        /\ isCorrupted' = r.flag
        /\ ret' = r.ret
        /\ UNCHANGED <<terminal, storage, copilot>>

CopyNode ==
    \E sourcePath \in CopySources, destinationParentPath \in CopyDests :
        LET r == copyNode(fileSystem, isCorrupted, sourcePath, destinationParentPath) IN
        /\ NodeCount(r.fs) <= MaxNodes
        /\ fileSystem' = r.fs
        /\ isCorrupted' = r.flag
        /\ ret' = r.ret
        /\ UNCHANGED <<terminal, storage, copilot>>

ResetToDefaults ==
    LET r == resetToDefaults(fileSystem, isCorrupted) IN
    /\ fileSystem' = r.fs
    /\ isCorrupted' = r.flag
    /\ ret' = r.ret
    /\ UNCHANGED <<terminal, storage, copilot>>

CorruptFileSystem ==
    \E r \in corruptFileSystem(fileSystem, isCorrupted) :
        /\ fileSystem' = r.fs
        /\ isCorrupted' = r.flag
        /\ ret' = r.ret
        /\ UNCHANGED <<terminal, storage, copilot>>

\* the create, read, update, delete, rename, move and copy surface, and the reset
Next ==
    \/ WriteFile
    \/ CreateDirectory
    \/ CreateFile
    \/ DeleteNode
    \/ RenameNode
    \/ MoveNode
    \/ CopyNode
    \/ ResetToDefaults

Spec == Init /\ [][Next]_vars

\* a directory keyed System below the root's Documents
MakeSystemDirectory ==
    LET r == createDirectory(fileSystem, isCorrupted, P(<<Documents>>), System) IN
    /\ fileSystem' = r.fs
    /\ isCorrupted' = r.flag
    /\ ret' = r.ret
    /\ UNCHANGED <<terminal, storage, copilot>>

\* a deletion below the protected prefix
DeleteProtected ==
    LET r == deleteNode(fileSystem, isCorrupted, P(<<System, ConfigSys>>)) IN
    /\ fileSystem' = r.fs
    /\ isCorrupted' = r.flag
    /\ ret' = r.ret
    /\ UNCHANGED <<terminal, storage, copilot>>

\* the corruption routine, with the calls that prepare and undo it
NextCorrupt ==
    \/ MakeSystemDirectory
    \/ DeleteProtected
    \/ CorruptFileSystem
    \/ ResetToDefaults

SpecCorrupt == Init /\ [][NextCorrupt]_vars

\* a root directory Doc, whose path /Doc is a textual prefix of /Documents
MakeDoc ==
    LET r == createDirectory(fileSystem, isCorrupted, Slash, Doc) IN
    /\ fileSystem' = r.fs
    /\ isCorrupted' = r.flag
    /\ ret' = r.ret
    /\ UNCHANGED <<terminal, storage, copilot>>

CopySibling ==
    \E sourcePath \in SiblingSources, destinationParentPath \in SiblingDests :
        LET r == copyNode(fileSystem, isCorrupted, sourcePath, destinationParentPath) IN
        /\ NodeCount(r.fs) <= MaxSiblingNodes
        /\ fileSystem' = r.fs
        /\ isCorrupted' = r.flag
        /\ ret' = r.ret
        /\ UNCHANGED <<terminal, storage, copilot>>

MoveSibling ==
    \E sourcePath \in SiblingSources, newParentPath \in SiblingDests :
        LET r == moveNode(fileSystem, isCorrupted, sourcePath, newParentPath) IN
        /\ fileSystem' = r.fs
        /\ isCorrupted' = r.flag
        /\ ret' = r.ret
        /\ UNCHANGED <<terminal, storage, copilot>>

\* copies and moves between sibling directories of the root
NextSiblings ==
    \/ MakeDoc
    \/ CopySibling
    \/ MoveSibling
    \/ ResetToDefaults

SpecSiblings == Init /\ [][NextSiblings]_vars

----------------------------------------------------------------------------
(* The terminal's state machine.  A step is what runs between two awaits:   *)
(* an await of a finished stage resumes in a microtask, before the next     *)
(* timer, reply, key press or bus message is handled.                       *)

NoneReady == \A k \in DOMAIN runs : runs[k].wait # "ready"

\* runCommand(command), from processCommand or from the action bus, up to its
\* first await
RunLine(command) ==
    LET parsed == parsePipesAndRedirection(command)
        s == RunStage(fileSystem, isCorrupted, ret, cwd,
                      Append(lines, Line("command", escapeHtml(command))),
                      Run(parsed.commands, parsed.redirectTo))
    IN  /\ started < MaxCommands
        /\ NoneReady
        /\ fileSystem' = s.fs
        /\ isCorrupted' = s.flag
        /\ ret' = s.ret
        /\ cwd' = s.cwd
        /\ lines' = s.lines
        /\ started' = started + 1
        /\ runs' = IF s.run = Done THEN runs ELSE (started + 1 :> s.run) @@ runs
        /\ UNCHANGED <<storage, copilot>>

RunCommand == \E command \in CommandLines : RunLine(command)

\* an activation of runCommand resumes after the await of a finished stage
Continue ==
    \E k \in DOMAIN runs :
        LET s == Resume(fileSystem, isCorrupted, ret, cwd, lines, runs[k]) IN
        /\ runs[k].wait = "ready"
        /\ fileSystem' = s.fs
        /\ isCorrupted' = s.flag
        /\ ret' = s.ret
        /\ cwd' = s.cwd
        /\ lines' = s.lines
        /\ started' = started
        /\ runs' = IF s.run = Done THEN [j \in (DOMAIN runs) \ {k} |-> runs[j]]
                   ELSE [runs EXCEPT ![k] = s.run]
        /\ UNCHANGED <<storage, copilot>>

\* one pass of ping's loop after its timer: the reply is added, and after the
\* last one the stage returns
PingReply(run, ms) ==
    [run EXCEPT !.out = @ \o Reply \o escapeHtml(run.host) \o TimeIs
                        \o NatToStr(ms) \o <<"m", "s", "\n">>,
                !.replies = @ + 1,
                !.wait = IF run.replies + 1 = PingCount THEN "ready" ELSE "timer"]

TimerFires ==
    \E k \in DOMAIN runs, ms \in PingTimes :
        /\ runs[k].wait = "timer"
        /\ NoneReady
        /\ runs' = [runs EXCEPT ![k] = PingReply(runs[k], ms)]
        /\ UNCHANGED <<fileSystem, isCorrupted, ret, lines, cwd, started, storage, copilot>>

\* ipconfig's request is answered, with an address or with an error
IpReplies ==
    \E k \in DOMAIN runs,
       out \in { PublicIpIs \o ip : ip \in PublicIps } \cup { NoIp } :
        /\ runs[k].wait = "http"
        /\ NoneReady
        /\ runs' = [runs EXCEPT ![k] = [@ EXCEPT !.out = out, !.wait = "ready"]]
        /\ UNCHANGED <<fileSystem, isCorrupted, ret, lines, cwd, started, storage, copilot>>

NextTerminal ==
    \/ RunCommand
    \/ Continue
    \/ TimerFires
    \/ IpReplies

SpecTerminal == Init /\ [][NextTerminal]_vars

\* the cd command on the path inputs
ChangeDirectory == \E command \in CdLines : RunLine(command)

NextPaths ==
    \/ ChangeDirectory
    \/ Continue

SpecPaths == Init /\ [][NextPaths]_vars

----------------------------------------------------------------------------
(* Persistence: the effect that writes the snapshot, and a restart *)

WriteText ==
    \E path \in PersistPaths, content \in PersistContents :
        LET r == writeFile(fileSystem, isCorrupted, path, content) IN
        /\ fileSystem' = r.fs
        /\ isCorrupted' = r.flag
        /\ ret' = r.ret
        /\ UNCHANGED <<terminal, storage, copilot>>

\* the effect registered by the constructor runs: it reads the fileSystem signal
\* and writes the item
PersistEffect ==
    /\ UNCHANGED <<fileSystem, isCorrupted, ret, terminal, copilot>>
    /\ storage' = StringifyNode(fileSystem)

\* the page is loaded again: the service and the terminal are constructed anew,
\* the item stays
Restart ==
    /\ UNCHANGED <<storage, copilot>>
    /\ isCorrupted' = FALSE
    /\ ret' = "none"
    /\ lines' = <<Line("response", WelcomeLine)>>
    /\ cwd' = Slash
    /\ runs' = [k \in {} |-> Done]
    /\ started' = 0
    /\ fileSystem' = loadFromLocalStorage(storage)

\* the item is removed or overwritten from outside the service
StorageLost ==
    \E item \in LostItems :
        /\ storage' = item
        /\ UNCHANGED <<fileSystem, isCorrupted, ret, terminal, copilot>>

NextPersist ==
    \/ WriteText
    \/ MakeDoc
    \/ DeleteProtected
    \/ ResetToDefaults
    \/ PersistEffect
    \/ Restart
    \/ StorageLost

SpecPersist == Init /\ [][NextPersist]_vars

----------------------------------------------------------------------------
(* The ai command: runAiCommand adds a line marked isThinking, awaits the    *)
(* stream and then every chunk of it; each chunk and the catch block edit    *)
(* the last line of the log.  An activation remembers the index of the line  *)
(* it added.                                                                 *)

MaxChunks == 2

AiLines == { <<"a", "i", " ", "h", "i">> }

\* the command lines that arrive while a stream is awaited
OtherLines == { UnknownLine }

\* the texts of the chunks
ChunkTexts == { <<"a", "<">> }

AiNotConfigured == 
    <<"A", "I", " ", "i", "s", " ", "n", "o", "t", " ", "c", "o", "n", "f",
      "i", "g", "u", "r", "e", "d", ".", " ", "G", "o", " ", "t", "o", " ",
      "S", "e", "t", "t", "i", "n", "g", "s", " ", ">", " ", "A", "P", "I",
      " ", "K", "e", "y", "s", " ", "t", "o", " ", "a", "d", "d", " ", "y",
      "o", "u", "r", " ", "G", "e", "m", "i", "n", "i", " ", "A", "P", "I",
      " ", "k", "e", "y", ".">>

AiNoResponse == 
    <<"E", "r", "r", "o", "r", ":", " ", "C", "o", "u", "l", "d", " ", "n",
      "o", "t", " ", "g", "e", "t", " ", "a", " ", "r", "e", "s", "p", "o",
      "n", "s", "e", " ", "f", "r", "o", "m", " ", "t", "h", "e", " ", "A",
      "I", ".">>

ThinkingLine == [type |-> "response", html |-> EmptyStr, isThinking |-> TRUE]

IsThinking(line) == "isThinking" \in DOMAIN line /\ line.isThinking

\* line with html set and isThinking deleted
Answered(line, html) ==
    [f \in (DOMAIN line) \ {"isThinking"} |-> IF f = "html" THEN html ELSE line[f]]

\* an activation of runAiCommand awaiting generateContentStream
AiRun(line) == [wait |-> "open", line |-> line, firstChunk |-> TRUE, chunks |-> 0]

\* the update of lines for a chunk: the log and the value of firstChunk after it
ChunkUpdate(log, firstChunk, text) ==
    IF log = <<>> THEN [lines |-> log, firstChunk |-> firstChunk]
    ELSE LET lastLine == log[Len(log)] IN
         IF firstChunk /\ IsThinking(lastLine)
         THEN [lines |-> [log EXCEPT ![Len(log)] = Answered(lastLine, escapeHtml(text))],
               firstChunk |-> FALSE]
         ELSE [lines |-> [log EXCEPT ![Len(log)].html = @ \o escapeHtml(text)],
               firstChunk |-> firstChunk]

\* the update of lines in the catch block
CatchUpdate(log) ==
    IF log # <<>> /\ IsThinking(log[Len(log)])
    THEN [log EXCEPT ![Len(log)] = Answered(@, RedSpan(AiNoResponse))]
    ELSE Append(log, Line("response", RedSpan(AiNoResponse)))

\* runCommand(command) for a line that begins with "ai ", up to the await of the
\* stream; configured tells whether this.ai is set
RunAiCommand ==
    \E command \in AiLines, configured \in BOOLEAN :
        LET log == Append(lines, Line("command", escapeHtml(command))) IN
        /\ StartsWith(toLowerCase(Trim(command)), <<"a", "i", " ">>)
        /\ started < MaxCommands
        /\ NoneReady
        /\ started' = started + 1
        /\ IF configured
           THEN /\ lines' = Append(log, ThinkingLine)
                /\ runs' = (started + 1 :> AiRun(Len(log) + 1)) @@ runs
           ELSE /\ lines' = Append(log, Line("response",
                                   RedSpan(<<"E", "r", "r", "o", "r", ":", " ">>
                                              \o AiNotConfigured)))
                /\ runs' = runs
        /\ UNCHANGED <<fileSystem, isCorrupted, ret, cwd, storage, copilot>>

\* a command line that is not for the ai
RunOther == \E command \in OtherLines : RunLine(command)

\* generateContentStream resolves with the stream
StreamOpens ==
    \E k \in DOMAIN runs :
        /\ runs[k].wait = "open"
        /\ NoneReady
        /\ runs' = [runs EXCEPT ![k].wait = "stream"]
        /\ UNCHANGED <<fileSystem, isCorrupted, ret, lines, cwd, started, storage, copilot>>

\* the stream yields a chunk
ChunkArrives ==
    \E k \in DOMAIN runs, text \in ChunkTexts :
        LET u == ChunkUpdate(lines, runs[k].firstChunk, text) IN
        /\ runs[k].wait = "stream"
        /\ runs[k].chunks < MaxChunks
        /\ NoneReady
        /\ lines' = u.lines
        /\ runs' = [runs EXCEPT ![k].firstChunk = u.firstChunk, ![k].chunks = @ + 1]
        /\ UNCHANGED <<fileSystem, isCorrupted, ret, cwd, started, storage, copilot>>

\* the stream ends and runAiCommand returns
StreamEnds ==
    \E k \in DOMAIN runs :
        /\ runs[k].wait = "stream"
        /\ NoneReady
        /\ runs' = [j \in (DOMAIN runs) \ {k} |-> runs[j]]
        /\ UNCHANGED <<fileSystem, isCorrupted, ret, lines, cwd, started, storage, copilot>>

\* the request or the stream throws, and the catch block runs
StreamFails ==
    \E k \in DOMAIN runs :
        /\ runs[k].wait \in {"open", "stream"}
        /\ NoneReady
        /\ lines' = CatchUpdate(lines)
        /\ runs' = [j \in (DOMAIN runs) \ {k} |-> runs[j]]
        /\ UNCHANGED <<fileSystem, isCorrupted, ret, cwd, started, storage, copilot>>

NextAi ==
    \/ RunAiCommand
    \/ RunOther
    \/ Continue
    \/ StreamOpens
    \/ ChunkArrives
    \/ StreamEnds
    \/ StreamFails

SpecAi == Init /\ [][NextAi]_vars

----------------------------------------------------------------------------
(* The copilot's handlers.  A step is what runs between two awaits: a      *)
(* request that is awaited settles in a later step, and the user's clicks  *)
(* come in between.                                                        *)

MaxMessages == 2

MaxSessions == 2

\* the texts of the input box when Send is pressed
UserInputs == { <<" ", "h", "i", " ">>, <<" ">> }

\* the texts of the provider's replies, none with a fenced json block
ReplyTexts == { <<"o", "k", " ">> }

\* the texts of the replies to a title request
TitleTexts == { <<"\"", "T", "\"", " ">> }

\* the messages of the errors a request is rejected with
ErrorMessages == { ServerError }

\* the joined names of the other providers that have a key
OtherProviders(provider) == { EmptyStr, OtherProviderName(provider) }

ChatRequests == { k \in DOMAIN requests : requests[k].kind = "chat" }

\* sendMessage() up to the await of the provider's request; configured tells
\* whether the selected provider has its key.  Without the key the handler
\* throws before it awaits anything, and the catch and finally blocks follow
\* before any other handler can run
SendMessage ==
    \E input \in UserInputs, provider \in Providers, configured \in BOOLEAN :
        LET activeId == activeSessionId
            message == Trim(input)
            isNewChat == /\ activeSession(chatSessions, activeId) # Null
                         /\ Len(activeSession(chatSessions, activeId).messages) = 1
            asked == Asked(chatSessions, activeId, message)
        IN  /\ activeId # NullId
            /\ message # EmptyStr
            /\ ~isLoading
            /\ sent < MaxMessages
            /\ sent' = sent + 1
            /\ IF configured
               THEN /\ chatSessions' = asked
                    /\ isLoading' = TRUE
                    /\ requests' = (sent + 1 :> ChatRequest(activeId, isNewChat,
                                                            message, provider))
                                       @@ requests
               ELSE /\ \E others \in OtherProviders(provider) :
                           chatSessions' =
                               Caught(asked, activeSessionId,
                                      IF provider = "gemini" THEN GeminiNotConfigured
                                      ELSE OpenAiNotConfigured, others)
                    /\ isLoading' = FALSE
                    /\ requests' = requests
            /\ UNCHANGED <<activeSessionId, clock>>
            /\ UNCHANGED <<fileSystem, isCorrupted, ret, terminal, storage>>

\* the request of activation k is over: k waits for a title when
\* generateTitleForSession has sent its request, and is gone otherwise
Finished(k, titled) ==
    IF titled
    THEN [requests EXCEPT ![k] = TitleRequest(requests[k].activeId)]
    ELSE [j \in (DOMAIN requests) \ {k} |-> requests[j]]

\* the provider answers with a text: the rest of handleGeminiRequest or
\* handleOpenAiRequest, then the rest of sendMessage.  generateTitleForSession
\* sends its request when this.ai is set, which the constructor's effect does
\* for the provider gemini only
ReplyArrives ==
    \E k \in ChatRequests, text \in ReplyTexts :
        /\ chatSessions' = Replied(chatSessions, activeSessionId, text)
        /\ isLoading' = FALSE
        /\ requests' = Finished(k, requests[k].isNewChat /\ requests[k].provider = "gemini")
        /\ UNCHANGED <<activeSessionId, sent, clock>>
        /\ UNCHANGED <<fileSystem, isCorrupted, ret, terminal, storage>>

\* the provider answers without a text (response.text, or the content of the
\* first choice, is undefined): the last message is removed, then trim() of
\* undefined throws and the catch and finally blocks of sendMessage run
ReplyWithoutText ==
    \E k \in ChatRequests :
        /\ chatSessions' =
               Caught(updateMessages(chatSessions, activeSessionId,
                          DropLast(chatHistory(chatSessions, activeSessionId))),
                      activeSessionId, TrimOfUndefined, EmptyStr)
        /\ isLoading' = FALSE
        /\ requests' = Finished(k, FALSE)
        /\ UNCHANGED <<activeSessionId, sent, clock>>
        /\ UNCHANGED <<fileSystem, isCorrupted, ret, terminal, storage>>

\* the request is rejected, or answered with an error status: the handler
\* throws before it removes anything
ReplyFails ==
    \E k \in ChatRequests, message \in ErrorMessages :
        \E others \in OtherProviders(requests[k].provider) :
            /\ chatSessions' = Caught(chatSessions, activeSessionId, message, others)
            /\ isLoading' = FALSE
            /\ requests' = Finished(k, FALSE)
            /\ UNCHANGED <<activeSessionId, sent, clock>>
            /\ UNCHANGED <<fileSystem, isCorrupted, ret, terminal, storage>>

\* the title request settles: the rest of generateTitleForSession.  A request
\* that fails, or a reply without a text, is only logged
TitleSettles ==
    \E k \in (DOMAIN requests) \ ChatRequests, text \in TitleTexts \cup {UndefinedStr} :
        /\ chatSessions' =
               [i \in DOMAIN chatSessions |->
                   IF chatSessions[i].id = requests[k].activeId /\ text # UndefinedStr
                   THEN [chatSessions[i] EXCEPT !.title = WithoutQuotes(Trim(text))]
                   ELSE chatSessions[i]]
        /\ requests' = [j \in (DOMAIN requests) \ {k} |-> requests[j]]
        /\ UNCHANGED <<activeSessionId, isLoading, sent, clock>>
        /\ UNCHANGED <<fileSystem, isCorrupted, ret, terminal, storage>>

\* newChat(): the clicks are at least a millisecond apart
NewChat ==
    /\ clock < MaxSessions
    /\ clock' = clock + 1
    /\ chatSessions' = newChat(chatSessions, clock + 1)
    /\ activeSessionId' = clock + 1
    /\ UNCHANGED <<isLoading, requests, sent>>
    /\ UNCHANGED <<fileSystem, isCorrupted, ret, terminal, storage>>

\* selectChat(sessionId) for a session of the sidebar
SelectChat ==
    \E i \in DOMAIN chatSessions :
        /\ activeSessionId' = chatSessions[i].id
        /\ UNCHANGED <<chatSessions, isLoading, requests, sent, clock>>
        /\ UNCHANGED <<fileSystem, isCorrupted, ret, terminal, storage>>

\* deleteChat(sessionId, event) for a session of the sidebar
DeleteChat ==
    \E i \in DOMAIN chatSessions :
        LET sessionId == chatSessions[i].id
            remaining == WithoutSession(chatSessions, sessionId)
        IN  /\ IF activeSessionId # sessionId
               THEN /\ chatSessions' = remaining
                    /\ UNCHANGED <<activeSessionId, clock>>
               ELSE IF Len(remaining) > 0
               THEN /\ chatSessions' = remaining
                    /\ activeSessionId' = remaining[1].id
                    /\ clock' = clock
               ELSE /\ clock < MaxSessions
                    /\ clock' = clock + 1
                    /\ chatSessions' = newChat(remaining, clock + 1)
                    /\ activeSessionId' = clock + 1
            /\ UNCHANGED <<isLoading, requests, sent>>
            /\ UNCHANGED <<fileSystem, isCorrupted, ret, terminal, storage>>

\* an awaited request of sendMessage settles
Settles == ReplyArrives \/ ReplyWithoutText \/ ReplyFails

NextCopilot ==
    \/ SendMessage
    \/ ReplyArrives
    \/ ReplyWithoutText
    \/ ReplyFails
    \/ TitleSettles
    \/ NewChat
    \/ SelectChat
    \/ DeleteChat

SpecCopilot == Init /\ [][NextCopilot]_vars

\* every request the copilot awaits is settled by its provider in the end
SpecCopilotLive == SpecCopilot /\ WF_vars(Settles)

----------------------------------------------------------------------------

(* Properties of a tree and of a step *)

\* the step is a call with outcome r
Step(r) == r = Result(fileSystem', isCorrupted', ret')

\* node.path == parent.path + "/" + node.name below dir, a root child being "/" + name
RECURSIVE ChildrenPathsConsistent(_)
ChildrenPathsConsistent(dir) ==
    \A k \in DOMAIN dir.children :
        LET child == dir.children[k] IN
        /\ child.path = ChildPath(dir.path, child.name)
        /\ IsDir(child) => ChildrenPathsConsistent(child)

PathConsistent(root) ==
    /\ root.path = Slash
    /\ root.name = EmptyStr
    /\ ChildrenPathsConsistent(root)

\* children[k].name == k in dir and below it
RECURSIVE KeysMatchNames(_)
KeysMatchNames(dir) ==
    \A k \in DOMAIN dir.children :
        /\ dir.children[k].name = k
        /\ IsDir(dir.children[k]) => KeysMatchNames(dir.children[k])

\* a subtree without its stored paths and sizes: names, types, contents, keys
RECURSIVE Shape(_)
Shape(node) ==
    [f \in (DOMAIN node) \ {"path", "size"} |->
        IF f = "children"
        THEN [k \in DOMAIN node.children |-> Shape(node.children[k])]
        ELSE node[f]]

\* new is old with the prefix oldPrefix of every stored path replaced by newPrefix
RECURSIVE PathsRewritten(_, _, _, _)
PathsRewritten(old, new, oldPrefix, newPrefix) ==
    /\ new.path = newPrefix \o SubSeq(old.path, Len(oldPrefix) + 1, Len(old.path))
    /\ new.type = old.type
    /\ IsDir(old) =>
          /\ DOMAIN new.children = DOMAIN old.children
          /\ \A k \in DOMAIN old.children :
                PathsRewritten(old.children[k], new.children[k], oldPrefix, newPrefix)

\* the key path `pre` leads to the key path `parts` or to one above it
IsKeyPrefix(pre, parts) == Len(pre) <= Len(parts) /\ SubSeq(parts, 1, Len(pre)) = pre

\* the exempt keys a directory had are still its keys, in dir and in every
\* directory that is still there below it
RECURSIVE ExemptKeysKept(_, _)
ExemptKeysKept(before, after) ==
    /\ \A k \in {System, Desktop} :
          k \in DOMAIN before.children => k \in DOMAIN after.children
    /\ \A k \in (DOMAIN after.children) \cap (DOMAIN before.children) :
          (IsDir(before.children[k]) /\ IsDir(after.children[k]))
              => ExemptKeysKept(before.children[k], after.children[k])

WelcomeCopyTxt ==
    <<"w", "e", "l", "c", "o", "m", "e", " ", "(", "c", "o", "p", "y", ")",
      ".", "t", "x", "t">>

----------------------------------------------------------------------------
(* Claims *)

\* C1: after any sequence of create, write, delete, rename, move and copy calls
\* from the default tree, every non-root node's stored path is its parent's
\* stored path, "/" and its name, and the root has path "/" and an empty name.
C1_PathConsistency == PathConsistent(fileSystem)

\* C2: a successful renameNode(path, newName) of a directory leaves the node
\* stored under parentPath/newName with that stored path, and every descendant
\* with its old stored path, the old directory prefix replaced by the new one.
C2_RenameRewritesPaths ==
    [][\A path \in RenamePaths, newName \in RenameNames :
          LET r == renameNode(fileSystem, isCorrupted, path, newName)
              old == getNode(fileSystem, path)
              newPath == ChildPath(ParentPathOf(path), newName)
          IN  (IsDir(old) /\ r.ret = "true" /\ Step(r))
                  => /\ IsDir(getNode(fileSystem', newPath))
                     /\ PathsRewritten(old, getNode(fileSystem', newPath),
                                       old.path, newPath)]_vars

ProtectedPaths ==
    { p \in WritePaths \cup DeletePaths \cup RenamePaths \cup MoveSources :
        StartsWith(p, SystemPrefix) }

\* C3: a writeFile, deleteNode, renameNode or moveNode (as source) call on a path
\* that starts with /System/ returns failure, leaves the tree unchanged and sets
\* isCorrupted to true.
C3_ProtectedRejected ==
    [][\A p \in ProtectedPaths :
          (\/ \E content \in Contents :
                 Step(writeFile(fileSystem, isCorrupted, p, content))
           \/ Step(deleteNode(fileSystem, isCorrupted, p))
           \/ \E newName \in RenameNames :
                 Step(renameNode(fileSystem, isCorrupted, p, newName))
           \/ \E newParentPath \in MoveDests :
                 Step(moveNode(fileSystem, isCorrupted, p, newParentPath)))
              => /\ ret' = "false"
                 /\ fileSystem' = fileSystem
                 /\ isCorrupted' = TRUE]_vars

\* C4: through the create, write, delete, rename, move and copy calls the subtree
\* at /System stays what it was: it exists, with the same descendants, names and
\* contents.
C4_SystemImmutable ==
    /\ IsDir(getNode(fileSystem, P(<<System>>)))
    /\ Shape(getNode(fileSystem, P(<<System>>)))
          = Shape(getNode(initialFileSystem, P(<<System>>)))

\* C5: in every reachable state, moveNode(source, dest) with source a directory
\* and dest that directory or one below it returns failure, does not raise, and
\* leaves the tree unchanged.
C5_CycleGuard ==
    [][\A sourcePath \in MoveSources, newParentPath \in MoveDests :
          (/\ IsDir(getNode(fileSystem, sourcePath))
           /\ IsDir(getNode(fileSystem, newParentPath))
           /\ IsKeyPrefix(PathParts(sourcePath), PathParts(newParentPath))
           /\ Step(moveNode(fileSystem, isCorrupted, sourcePath, newParentPath)))
              => /\ ret' = "false"
                 /\ fileSystem' = fileSystem]_vars

\* C6: writeFile(path, content) on a path that does not resolve to a File (it is
\* missing, a Directory, or the root) returns failure and leaves the tree
\* unchanged.
C6_WriteNeedsFile ==
    [][\A path \in WritePaths, content \in Contents :
          (/\ ~IsFile(getNode(fileSystem, path))
           /\ Step(writeFile(fileSystem, isCorrupted, path, content)))
              => /\ ret' = "false"
                 /\ fileSystem' = fileSystem]_vars

\* C7: in every state reached by create, write, delete, rename, move and copy
\* calls from the default tree, every key of every directory's children mapping
\* is the name of the child stored under it.
C7_KeysMatchNames == KeysMatchNames(fileSystem)

\* a copy made under a collision-resolved key, then its directory renamed
C7_Witness ==
    /\ Notes \in DOMAIN fileSystem.children
    /\ Documents \notin DOMAIN fileSystem.children
    /\ IsDir(fileSystem.children[Notes])
    /\ WelcomeCopyTxt \in DOMAIN fileSystem.children[Notes].children

\* C8: every outcome of corruptFileSystem() is a structurally valid tree: node
\* paths are parent path, "/" and name, and every key is its child's name.
C8_CorruptKeepsValid ==
    [][CorruptFileSystem
         => PathConsistent(fileSystem') /\ KeysMatchNames(fileSystem')]_vars

\* C9: in every outcome of corruptFileSystem(), whatever its random draws, a
\* directory that had a child keyed System or Desktop and is still there has an
\* entry under that key; the root keeps its System and Desktop entries.
C9_ExemptKeysSurvive ==
    \A r \in corruptFileSystem(fileSystem, isCorrupted) :
        /\ ExemptKeysKept(fileSystem, r.fs)
        /\ \A k \in {System, Desktop} :
              k \in DOMAIN fileSystem.children => k \in DOMAIN r.fs.children

\* a corrupted tree: Documents was renamed and entered, its welcome.txt and the
\* root's Downloads were deleted, and the System entry inside it is still there
C9_Witness ==
    /\ Documents \in DOMAIN fileSystem.children
    /\ fileSystem.children[Documents].name \in Gibberish
    /\ WelcomeTxt \notin DOMAIN fileSystem.children[Documents].children
    /\ System \in DOMAIN fileSystem.children[Documents].children
    /\ Downloads \notin DOMAIN fileSystem.children
    /\ System \in DOMAIN fileSystem.children
    /\ Desktop \in DOMAIN fileSystem.children

\* C10: once corruptFileSystem() has been called, isCorrupted is true (until the
\* next resetToDefaults).
C10_CorruptSetsFlag == [][CorruptFileSystem => isCorrupted']_vars

\* the paths under the protected prefix among the parents of the create calls
ProtectedParents == { p \in CreateParents : StartsWith(p, SystemPrefix) }

\* the step is a call that names a path under the protected prefix and reaches
\* a protected-prefix test
ProtectedCall ==
    \/ \E p \in ProtectedPaths :
          \/ \E content \in Contents :
                Step(writeFile(fileSystem, isCorrupted, p, content))
          \/ Step(deleteNode(fileSystem, isCorrupted, p))
          \/ \E newName \in RenameNames :
                Step(renameNode(fileSystem, isCorrupted, p, newName))
    \/ \E p \in ProtectedParents, name \in CreateNames :
          \/ Step(createDirectory(fileSystem, isCorrupted, p, name))
          \/ Step(createFile(fileSystem, isCorrupted, p, name, EmptyStr))

\* C11: isCorrupted goes from false to true only in a call that is rejected
\* (failure returned, tree unchanged) because its path is under /System/, and it
\* goes from true to false only in resetToDefaults: once true it stays true
\* across every other call.
C11_FlagSticky ==
    [][/\ (~isCorrupted /\ isCorrupted')
              => (ret' = "false" /\ fileSystem' = fileSystem /\ ProtectedCall)
       /\ (isCorrupted /\ ~isCorrupted')
              => Step(resetToDefaults(fileSystem, isCorrupted))]_vars

\* the flag was set by a rejection and has stayed set across a successful edit
C11_Witness ==
    /\ isCorrupted
    /\ ret = "true"
    /\ fileSystem # initialFileSystem

\* the i-th name copyNode tries for a source called name: the name itself, then
\* base (copy)ext, base (copy 2)ext, base (copy 3)ext, ...
CopyCandidate(name, i) ==
    LET dot == LastIndexOf(name, ".")
        base == IF dot = 0 THEN name ELSE SubSeq(name, 1, dot - 1)
        ext == IF dot = 0 THEN <<>> ELSE SubSeq(name, dot, Len(name))
    IN  IF i = 0 THEN name
        ELSE IF i = 1 THEN base \o <<" ", "(", "c", "o", "p", "y", ")">> \o ext
        ELSE base \o <<" ", "(", "c", "o", "p", "y", " ">> \o NatToStr(i)
                  \o <<")">> \o ext

\* the first of those names that is no key of children
FirstFreeName(children, name) ==
    LET free == { i \in 0..Cardinality(DOMAIN children) :
                     CopyCandidate(name, i) \notin DOMAIN children }
    IN  CopyCandidate(name, CHOOSE i \in free : \A j \in free : i <= j)

\* C12: a successful copyNode stores the copy in the destination under the
\* source's name when that key is free, otherwise under the first free name of
\* base (copy)ext, base (copy 2)ext, ..., and every child the destination had is
\* still there, unchanged.
C12_CopyNameCollision ==
    [][ret' = "true" =>
          \A sourcePath \in CopySources, destinationParentPath \in CopyDests :
             LET r == copyNode(fileSystem, isCorrupted, sourcePath,
                               destinationParentPath)
                 source == getNode(fileSystem, sourcePath)
                 before == getDirectory(fileSystem, destinationParentPath)
                 after == getDirectory(fileSystem', destinationParentPath)
             IN  Step(r)
                    => LET key == FirstFreeName(before.children, source.name) IN
                       /\ IsDir(after)
                       /\ DOMAIN after.children = DOMAIN before.children \cup {key}
                       /\ key \notin DOMAIN before.children
                       /\ after.children[key].name = key
                       /\ \A k \in DOMAIN before.children :
                             after.children[k] = before.children[k]]_vars

WelcomeCopy2Txt ==
    <<"w", "e", "l", "c", "o", "m", "e", " ", "(", "c", "o", "p", "y", " ", "2",
      ")", ".", "t", "x", "t">>

\* /Documents/welcome.txt copied into /Documents twice
C12_Witness ==
    /\ Documents \in DOMAIN fileSystem.children
    /\ {WelcomeTxt, WelcomeCopyTxt, WelcomeCopy2Txt}
          \subseteq DOMAIN fileSystem.children[Documents].children
    /\ ret = "true"

\* C13: in every reachable state, copyNode(source, destParent) returns failure
\* exactly when the source does not exist, the destination directory does not
\* exist, or the destination is the source directory or lies below it; a
\* sibling destination whose path only starts with the source's path text (/Doc
\* into /Documents) succeeds.
C13_CopyFailsOnlyIf ==
    \A sourcePath \in SiblingSources, destinationParentPath \in SiblingDests :
        LET r == copyNode(fileSystem, isCorrupted, sourcePath, destinationParentPath)
        IN  (r.ret = "false")
               <=> \/ getNode(fileSystem, sourcePath) = Null
                   \/ getDirectory(fileSystem, destinationParentPath) = Null
                   \/ /\ IsDir(getNode(fileSystem, sourcePath))
                      /\ IsKeyPrefix(PathParts(sourcePath),
                                     PathParts(destinationParentPath))

\* every stored path in the subtree is the parent's path, "/" and the name, the
\* subtree's root being a child of the directory at parentPath
RECURSIVE StoredUnder(_, _)
StoredUnder(node, parentPath) ==
    /\ node.path = ChildPath(parentPath, node.name)
    /\ IsDir(node) =>
          \A k \in DOMAIN node.children : StoredUnder(node.children[k], node.path)

\* the tree without the subtree at the key path parts
WithoutSubtree(fs, parts) ==
    LET parentParts == SubSeq(parts, 1, Len(parts) - 1) IN
    ReplaceAt(fs, parentParts,
              RemoveChild(Descend(fs, parentParts), parts[Len(parts)]))

C15_CreateOutcome ==
    \A parentPath \in CreateParents, name \in CreateNames :
        LET parent == getDirectory(fileSystem, parentPath)
            refused == parent = Null \/ name \in DOMAIN parent.children
            newPath == ChildPath(parentPath, name)
            d == createDirectory(fileSystem, isCorrupted, parentPath, name)
            f == createFile(fileSystem, isCorrupted, parentPath, name, ContentX)
        IN  IF refused
            THEN /\ d.ret = "false" /\ d.fs = fileSystem
                 /\ f.ret = "false" /\ f.fs = fileSystem
            ELSE /\ d.ret = "true"
                 /\ getNode(d.fs, newPath)
                       = Directory(name, newPath, NoChildren)
                 /\ WithoutSubtree(d.fs, PathParts(newPath)) = fileSystem
                 /\ f.ret = "true"
                 /\ getNode(f.fs, newPath)
                       = File(name, newPath, ContentX, calculateSize(ContentX))
                 /\ WithoutSubtree(f.fs, PathParts(newPath)) = fileSystem

\* C16: a writeFile, createDirectory, createFile, deleteNode, renameNode,
\* moveNode or copyNode call that does not succeed (it returns failure, or
\* raises) leaves the tree exactly as it was, and a moveNode call never changes
\* the number of nodes: nothing is detached without being attached again.
C16_FailureLeavesTree ==
    [][/\ ret' \in {"false", "raised"} => fileSystem' = fileSystem
       /\ NodeCount(fileSystem') # NodeCount(fileSystem) => ~MoveNode]_vars

\* a moveNode call whose update function threw after detaching the node in its
\* copy of the tree: the directory Notes is still in the tree
C16_Witness ==
    /\ ret = "raised"
    /\ Notes \in DOMAIN fileSystem.children
    /\ Sub \in DOMAIN fileSystem.children[Notes].children

\* the step is the end of activation k: its last stage has returned, and it
\* redirects or prints that stage's output and is gone
Finishing(k) ==
    /\ k \in DOMAIN runs
    /\ k \notin DOMAIN runs'
    /\ runs[k].wait = "ready"
    /\ runs[k].i = Len(runs[k].commands)

\* C17: the stages of a command line run in left-to-right order, the first with
\* empty stdin, each later one with the previous stage's output stripped of its
\* markup as stdin.
C17_PipelineThreading ==
    [][\A k \in DOMAIN runs' :
          /\ runs'[k].stdin = IF runs'[k].i = 1 THEN EmptyStr
                              ELSE stripHtml(runs'[k].lastOutput)
          /\ runs'[k].i = IF k \in DOMAIN runs /\ runs'[k].i # runs[k].i
                          THEN runs[k].i + 1
                          ELSE IF k \in DOMAIN runs THEN runs[k].i ELSE 1]_vars

\* the texts of the redirection's error lines
CouldNotWriteTo ==
    <<"C", "o", "u", "l", "d", " ", "n", "o", "t", " ", "w", "r", "i", "t",
      "e", " ", "t", "o", " ">>

IsADirectory ==
    <<" ", "i", "s", " ", "a", " ", "d", "i", "r", "e", "c", "t", "o", "r",
      "y", ".">>

DirectoryDoesNotExist ==
    <<"D", "i", "r", "e", "c", "t", "o", "r", "y", " ", "d", "o", "e", "s",
      " ", "n", "o", "t", " ", "e", "x", "i", "s", "t", ".">>

FullStop == <<".">>

\* the error line of the redirection with the given message
ErrorLine(message) == Line("response", RedSpan(message))

\* C18: when the redirection target is a Directory, or its parent directory does
\* not exist, or it is under /System/, the write fails with the tree unchanged
\* and the log gets one error line that names that reason ("... is a
\* directory.", "Directory does not exist.", a protected-path reason), never the
\* generic "Could not write to ...".
C18_RedirectFailureReasons ==
    [][\A k \in DOMAIN runs :
          (Finishing(k) /\ ~Falsy(runs[k].redirectTo))
             => LET redirectTo == runs[k].redirectTo
                    filePath == resolvePath(cwd, redirectTo)
                    isDirectory == IsDir(getNode(fileSystem, filePath))
                    noParent == ~IsDir(getNode(fileSystem, BeforeLast(filePath, "/")))
                    protected == StartsWith(filePath, SystemPrefix)
                    generic == ErrorLine(CouldNotWriteTo \o redirectTo \o FullStop)
                IN  /\ isDirectory
                       => /\ fileSystem' = fileSystem
                          /\ lines' = Append(lines,
                                ErrorLine(redirectTo \o IsADirectory))
                    /\ (~isDirectory /\ noParent)
                       => /\ fileSystem' = fileSystem
                          /\ lines' = Append(lines,
                                ErrorLine(DirectoryDoesNotExist))
                    /\ (~isDirectory /\ ~noParent /\ protected)
                       => /\ fileSystem' = fileSystem
                          /\ Len(lines') = Len(lines) + 1
                          /\ SubSeq(lines', 1, Len(lines)) = lines
                          /\ lines'[Len(lines')] # generic]_vars

\* C19: when a command line's redirection target resolves to a File that is
\* not under /System/, the end of the pipeline leaves that file's content equal
\* to the final stage's output stripped of its markup, and adds nothing to the
\* output log.
C19_RedirectionWrites ==
    [][\A k \in DOMAIN runs :
          LET filePath == resolvePath(cwd, runs[k].redirectTo) IN
          (/\ Finishing(k)
           /\ ~Falsy(runs[k].redirectTo)
           /\ IsFile(getNode(fileSystem, filePath))
           /\ ~StartsWith(filePath, SystemPrefix))
             => /\ IsFile(getNode(fileSystem', filePath))
                /\ getNode(fileSystem', filePath).content = stripHtml(runs[k].out)
                /\ lines' = lines]_vars

\* cat /System/config.sys > /Documents/welcome.txt has run: the file holds the
\* text without the <pre> markup, the log only the welcome and the command line
C19_Witness ==
    /\ IsFile(getNode(fileSystem, P(<<Documents, WelcomeTxt>>)))
    /\ getNode(fileSystem, P(<<Documents, WelcomeTxt>>)).content = ConfigData
    /\ DOMAIN runs = {}
    /\ lines = <<Line("response", WelcomeLine),
                 Line("command", escapeHtml(CatConfigToWelcome))>>

\* C20: command lines do not interleave: while an activation of runCommand is
\* between its start and its end and takes no step itself, no other activation
\* starts or runs a stage, and the tree, the current directory and the output
\* log stay what they are.
C20_NoInterleaving ==
    [][\A k \in DOMAIN runs :
          (k \in DOMAIN runs' /\ runs'[k] = runs[k])
             => /\ runs' = runs
                /\ started' = started
                /\ fileSystem' = fileSystem
                /\ cwd' = cwd
                /\ lines' = lines]_vars

\* the stage's leading token is clear, in any letter case
IsClear(stage) == toLowerCase(Head(Split(Trim(stage), " "))) = <<"c", "l", "e", "a", "r">>

\* C21: when the stage a command line comes to has the leading token clear (in
\* any letter case), runCommand returns at once with the output log empty: that
\* stage and the later ones are not executed and the redirection does not write
\* (the tree, the flag and the current directory stay as the earlier stages left
\* them).
C21_ClearAborts ==
    [][/\ \A k \in DOMAIN runs :
             (/\ runs[k].wait = "ready"
              /\ runs[k].i < Len(runs[k].commands)
              /\ IsClear(runs[k].commands[runs[k].i + 1]))
                => /\ runs' = [j \in (DOMAIN runs) \ {k} |-> runs[j]]
                   /\ lines' = <<>>
                   /\ fileSystem' = fileSystem
                   /\ isCorrupted' = isCorrupted
                   /\ cwd' = cwd
       /\ \A command \in CommandLines :
             LET parsed == parsePipesAndRedirection(command)
                 s == RunStage(fileSystem, isCorrupted, ret, cwd,
                               Append(lines, Line("command", escapeHtml(command))),
                               Run(parsed.commands, parsed.redirectTo))
             IN  IsClear(parsed.commands[1])
                    => /\ s.run = Done
                       /\ s.lines = <<>>
                       /\ s.fs = fileSystem
                       /\ s.flag = isCorrupted
                       /\ s.cwd = cwd]_vars

\* cd Documents | Clear | echo x > welcome.txt has run: the current directory is
\* /Documents, the log is empty, and welcome.txt holds what it held
C21_Witness ==
    /\ started = 1
    /\ DOMAIN runs = {}
    /\ cwd = P(<<Documents>>)
    /\ lines = <<>>
    /\ readFile(fileSystem, P(<<Documents, WelcomeTxt>>)) = welcomeContent

\* the command name of the stage the activation is at
StageName(run) == Head(Split(Trim(run.commands[run.i]), " "))

\* the name is none of the commands
IsUnknown(cmd) == toLowerCase(cmd) \notin CommandNames \cup { <<"c", "l", "e", "a", "r">> }

\* C22: a stage with an unknown command name returns the "Command not found"
\* text for that name with the tree and the current directory unchanged, and the
\* pipeline goes on: the next stage is started, or, after the last stage, the
\* output is printed or handed to the redirection's writeFile.
C22_UnknownCommand ==
    [][/\ \A k \in DOMAIN runs' :
             (/\ k \notin DOMAIN runs \/ runs[k].i # runs'[k].i
              /\ IsUnknown(StageName(runs'[k])))
                => /\ runs'[k].wait = "ready"
                   /\ runs'[k].out
                         = RedSpan(CommandNotFound \o escapeHtml(StageName(runs'[k])))
                   /\ fileSystem' = fileSystem
                   /\ cwd' = cwd
       /\ \A k \in DOMAIN runs :
             (runs[k].wait = "ready" /\ IsUnknown(StageName(runs[k])))
                => IF runs[k].i < Len(runs[k].commands)
                   THEN \/ /\ k \in DOMAIN runs'
                           /\ runs'[k].i = runs[k].i + 1
                        \/ IsClear(runs[k].commands[runs[k].i + 1])
                   ELSE /\ k \notin DOMAIN runs'
                        /\ IF Falsy(runs[k].redirectTo)
                           THEN lines' = Append(lines, Line("response", runs[k].out))
                           ELSE Step(writeFile(fileSystem, isCorrupted,
                                        resolvePath(cwd, runs[k].redirectTo),
                                        stripHtml(runs[k].out)))]_vars

\* nope | wc has run: stage 2 counted the "Command not found" text of stage 1
\* and its output was printed
C22_Witness ==
    /\ started = 1
    /\ DOMAIN runs = {}
    /\ Len(lines) = 3
    /\ lines[3] = Line("response",
          executeSingleCommand(fileSystem, isCorrupted, cwd, <<"w", "c">>, <<>>,
              RedSpan(CommandNotFound \o <<"n", "o", "p", "e">>)).out)

\* the text a, space, b, line feed, c
ABLineC == <<"a", " ", "b", "\n", "c">>

\* what wc returns in the current state for the given arguments and stdin
WcOut(args, stdin) ==
    executeSingleCommand(fileSystem, isCorrupted, cwd, <<"w", "c">>, args, stdin).out

\* the three counts of a text: one more than its line feeds, its maximal runs of
\* characters that are no white space, and its length
Counts(text) ==
    NatToStr(Cardinality({i \in 1..Len(text) : text[i] = "\n"}) + 1) \o <<" ">>
      \o NatToStr(Cardinality({i \in 1..Len(text) :
                                  /\ text[i] \notin Whitespace
                                  /\ (i = Len(text) \/ text[i + 1] \in Whitespace)}))
      \o <<" ">> \o NatToStr(Len(text))

WcFiles == { P(<<Documents, WelcomeTxt>>), P(<<System, ConfigSys>>) }

\* C23 as stated: wc on the stdin "a b\nc" yields "2 2 4".
C23_WcExample == WcOut(<<>>, ABLineC) = <<"2", " ", "2", " ", "4">>

\* C23, amended: wc yields the line, word and character counts of its stdin, or
\* of the named file when stdin is empty, and on the stdin "a b\nc" it yields
\* "2 3 5".
C23_WcCounts ==
    /\ WcOut(<<>>, ABLineC) = <<"2", " ", "3", " ", "5">>
    /\ \A path \in WcFiles :
          /\ WcOut(<<path>>, ABLineC) = <<"2", " ", "3", " ", "5">>
          /\ IsFile(getNode(fileSystem, path))
                => WcOut(<<path>>, EmptyStr)
                      = Counts(getNode(fileSystem, path).content)

\* echo a b\nc | wc has run and printed the counts
C23_Witness ==
    /\ DOMAIN runs = {}
    /\ lines # <<>>
    /\ lines[Len(lines)] = Line("response", <<"2", " ", "3", " ", "5">>)

\* the current directories the cd inputs lead to
Cwds == { Slash, P(<<Documents>>), P(<<Desktop>>), P(<<Downloads>>) }

\* C24: for every absolute path p, resolvePath(p) is normalizePath(p) whatever
\* the current directory is, and normalizePath(normalizePath(p)) is
\* normalizePath(p).
C24_AbsoluteAgrees ==
    /\ cwd \in Cwds
    /\ \A p \in AbsoluteInputs :
          /\ \A wd \in Cwds : resolvePath(wd, p) = normalizePath(p)
          /\ normalizePath(normalizePath(p)) = normalizePath(p)

\* cd /Documents/./../Desktop has run
C24_Witness ==
    /\ started = 1
    /\ DOMAIN runs = {}
    /\ lines[2] = Line("command", escapeHtml(CdAbsolute))
    /\ cwd = P(<<Desktop>>)

\* "/" alone, or "/" and segments joined by "/", none of them empty, "." or ".."
Canonical(path) ==
    /\ StartsWith(path, Slash)
    /\ path # Slash
          => \A part \in { Split(Tail(path), "/")[i] :
                             i \in 1..Len(Split(Tail(path), "/")) } :
                part \notin { EmptyStr, Dot, DotDot }

\* C25: in every current directory the shell reaches, resolvePath returns a
\* canonical path for every input; a relative input resolves as the absolute
\* path made of the current directory, "/" and the input does, an empty input
\* and "." give the current directory, and ".." at "/" gives "/".
C25_CanonicalOutput ==
    /\ Canonical(cwd)
    /\ \A p \in AbsoluteInputs \cup RelativeInputs :
          Canonical(resolvePath(cwd, p))
    /\ \A p \in RelativeInputs :
          resolvePath(cwd, p) = IF p \in { EmptyStr, Dot } THEN cwd
                                ELSE normalizePath(cwd \o Slash \o p)
    /\ resolvePath(Slash, DotDot) = Slash
    /\ normalizePath(Slash \o DotDot) = Slash

\* cd Documents, then cd ../../Downloads: the second ".." had nothing to pop
C25_Witness ==
    /\ started = 2
    /\ DOMAIN runs = {}
    /\ lines[2] = Line("command", escapeHtml(CdDocuments))
    /\ lines[3] = Line("command", escapeHtml(CdRelative))
    /\ cwd = P(<<Downloads>>)

\* the files of the tree at and below node
RECURSIVE FilesOf(_)
FilesOf(node) ==
    IF IsFile(node) THEN {node}
    ELSE IF IsDir(node)
    THEN UNION { FilesOf(node.children[k]) : k \in DOMAIN node.children }
    ELSE {}

\* the size the content determines: three bytes for every four characters,
\* rounded up, behind the binary prefix, and the length otherwise
SizeOfContent(content) ==
    IF StartsWith(content, ImagePrefix) THEN ((Len(content) + 3) \div 4) * 3
    ELSE Len(content)

\* C26: in every reachable state, the default tree and the outcomes of
\* corruptFileSystem() included, every file's size is the size its content
\* determines.
C26_SizeFromContent ==
    \A file \in FilesOf(fileSystem) : file.size = SizeOfContent(file.content)

\* C27: once the persistence effect has run, what loadFromLocalStorage makes of
\* the item is the tree in memory, so a restart that follows it leaves the tree as
\* it was; a restart with no item, or with an item that does not parse, loads the
\* built-in default tree.
C27_PersistenceRoundTrip ==
    [][ /\ PersistEffect => loadFromLocalStorage(storage') = fileSystem
        /\ (Restart /\ storage = StringifyNode(fileSystem)) => fileSystem' = fileSystem
        /\ (Restart /\ storage \in LostItems) => fileSystem' = initialFileSystem ]_vars

\* after a restart, the tree holds the text with a quote, a backslash and a line
\* feed that was written and persisted before it
C27_Witness ==
    /\ ret = "none"
    /\ ~isCorrupted
    /\ IsDir(fileSystem.children[Documents])
    /\ WelcomeTxt \in DOMAIN fileSystem.children[Documents].children
    /\ fileSystem.children[Documents].children[WelcomeTxt].content = QuotedText
    /\ storage = StringifyNode(fileSystem)

RECURSIVE KeyPaths(_)
KeyPaths(node) ==
    IF IsDir(node)
    THEN UNION { {<<k>>} \cup { <<k>> \o q : q \in KeyPaths(node.children[k]) } :
                 k \in DOMAIN node.children }
    ELSE {}

\* deleteNode(path) in the current state: when it succeeds, path and every path
\* below it resolve to nothing and every other node has its name, path and
\* content; when the parent is no directory or has no child of that name, it
\* fails
DeleteFrameAt(path) ==
    LET r == deleteNode(fileSystem, isCorrupted, path)
        parts == PathParts(path)
        parentDir == getDirectory(fileSystem, ParentPathOf(path))
        nodeName == AfterLast(path, "/")
    IN  /\ r.ret = "true" =>
              /\ getNode(r.fs, path) = Null
              /\ \A q \in KeyPaths(fileSystem) :
                    IF IsKeyPrefix(parts, q) THEN Descend(r.fs, q) = Null
                    ELSE LET before == Descend(fileSystem, q)
                             after == Descend(r.fs, q)
                         IN  \A f \in {"name", "path", "content"} \cap DOMAIN before :
                                f \in DOMAIN after /\ after[f] = before[f]
        /\ (parentDir = Null \/ nodeName \notin DOMAIN parentDir.children)
              => r.ret = "false"

\* C29: after a successful deleteNode(path), getNode(path) and getNode of every
\* path below it return none and every node outside the deleted subtree keeps
\* its name, path and content; deleteNode on a path whose parent or named child
\* does not exist returns failure.
C29_DeleteFrame == \A path \in DeletePaths : DeleteFrameAt(path)

\* the paths and contents writeFile is tried with in every state: the write
\* inputs, the image file, and texts of other lengths, one of them an image
FramePaths == WritePaths \cup PersistPaths \cup { P(<<Documents, PhotoPng>>) }
FrameContents == Contents \cup PersistContents \cup { EmptyStr, ImagePrefix \o ContentX }

\* writeFile(path, content) in the current state, path being a file outside the
\* protected prefix and the call succeeding
WriteFrameAt(path, content) ==
    LET r == writeFile(fileSystem, isCorrupted, path, content)
        parts == PathParts(path)
    IN  (/\ IsFile(getNode(fileSystem, path))
         /\ ~StartsWith(path, SystemPrefix)
         /\ r.ret = "true")
        => /\ readFile(r.fs, path) = content
           /\ getNode(r.fs, path).size = calculateSize(content)
           /\ KeyPaths(r.fs) = KeyPaths(fileSystem)
           /\ \A f \in {"name", "path", "type"} : r.fs[f] = fileSystem[f]
           /\ \A q \in KeyPaths(fileSystem) :
                 LET before == Descend(fileSystem, q)
                     after == Descend(r.fs, q)
                 IN  /\ \A f \in {"name", "path", "type"} : after[f] = before[f]
                     /\ (q # parts /\ "content" \in DOMAIN before)
                           => ("content" \in DOMAIN after
                               /\ after.content = before.content)

\* C30: a successful writeFile(path, content) on an existing file outside the
\* protected prefix makes readFile(path) the content and the file's size the
\* size computed from the content, and leaves every other node's name, path,
\* type and content, and every directory's keys, as they were.
C30_WriteFrame ==
    \A path \in FramePaths, content \in FrameContents : WriteFrameAt(path, content)

\* the text has been written to the welcome file, whose size is its length
C30_Witness ==
    /\ ret = "true"
    /\ readFile(fileSystem, P(<<Documents, WelcomeTxt>>)) = QuotedText
    /\ getNode(fileSystem, P(<<Documents, WelcomeTxt>>)).size = Len(QuotedText)
    /\ fileSystem.children[Documents].children[PhotoPng] = photoFile

\* the outcomes of a write, a rename and a delete at path
EditsAt(fs, flag, path) ==
    { writeFile(fs, flag, path, ContentX),
      renameNode(fs, flag, path, Notes),
      deleteNode(fs, flag, path) }

\* copyNode(sourcePath, destinationParentPath) in the current state, when it
\* succeeds: the source subtree is what it was; the destination has one new key,
\* under which a node with the source's type, content and descendants is stored
\* with paths below the destination; an edit at or below the copy leaves the
\* source subtree as it is, and an edit at or below the source leaves the copy
CopyFrameAt(sourcePath, destinationParentPath) ==
    LET r == copyNode(fileSystem, isCorrupted, sourcePath, destinationParentPath)
        source == getNode(fileSystem, sourcePath)
        sourceParts == PathParts(sourcePath)
        destParts == PathParts(destinationParentPath)
        newKeys == DOMAIN Descend(r.fs, destParts).children
                      \ DOMAIN Descend(fileSystem, destParts).children
    IN  r.ret = "true" =>
           /\ getNode(r.fs, sourcePath) = source
           /\ Cardinality(newKeys) = 1
           /\ \A key \in newKeys :
                 LET copyParts == Append(destParts, key)
                     copy == Descend(r.fs, copyParts)
                 IN  /\ copy.name = key
                     /\ Shape([copy EXCEPT !.name = source.name]) = Shape(source)
                     /\ StoredUnder(copy, destinationParentPath)
                     /\ \A q \in KeyPaths(source) \cup {<<>>} :
                           /\ \A e \in EditsAt(r.fs, r.flag, P(copyParts \o q)) :
                                 Descend(e.fs, sourceParts) = source
                           /\ \A e \in EditsAt(r.fs, r.flag, P(sourceParts \o q)) :
                                 Descend(e.fs, copyParts) = copy

\* C31: a successful copyNode leaves the source subtree unchanged and stores a
\* duplicate with the same types, contents and descendant names and with every
\* stored path rewritten under the destination; a later write, rename or delete
\* in the copy leaves the source subtree unchanged, and one in the source leaves
\* the copy unchanged.
C31_CopyIndependent ==
    \A sourcePath \in SiblingSources, destinationParentPath \in SiblingDests :
        CopyFrameAt(sourcePath, destinationParentPath)

\* the welcome file has been copied into /Desktop, the copy is stored under the
\* path below /Desktop, and the original is what it was
C31_Witness ==
    /\ ret = "true"
    /\ IsDir(fileSystem.children[Desktop])
    /\ WelcomeTxt \in DOMAIN fileSystem.children[Desktop].children
    /\ fileSystem.children[Desktop].children[WelcomeTxt].path
          = P(<<Desktop, WelcomeTxt>>)
    /\ getNode(fileSystem, P(<<Documents, WelcomeTxt>>)) = welcomeFile

\* every directory at node and below it has size 0
RECURSIVE DirectoriesSizeZero(_)
DirectoriesSizeZero(node) ==
    IsDir(node) =>
        /\ node.size = 0
        /\ \A k \in DOMAIN node.children : DirectoriesSizeZero(node.children[k])

\* C32: every directory has size 0 in every reachable state, after any sequence
\* of calls, a writeFile on a path that resolves to a directory included.
C32_DirectorySizeZero == DirectoriesSizeZero(fileSystem)

\* the activation k has executed a stage in this step
StageExecuted(k) ==
    /\ k \in DOMAIN runs'
    /\ k \notin DOMAIN runs \/ runs[k].i # runs'[k].i

\* the arguments of the stage the activation is at
StageArgs(run) == Tail(Split(Trim(run.commands[run.i]), " "))

CdNoSuch == 
    <<"c", "d", ":", " ", "n", "o", " ", "s", "u", "c", "h", " ", "f", "i",
      "l", "e", " ", "o", "r", " ", "d", "i", "r", "e", "c", "t", "o", "r",
      "y", ":", " ">>

\* C33: a cd stage sets the current directory to the resolved argument (the root
\* when there is none) and returns the empty text when that path is an existing
\* directory; otherwise it returns its error text and leaves the current
\* directory as it is; a step that executes no cd stage leaves the current
\* directory as it is.
C33_OnlyCdChangesCwd ==
    [][/\ \A k \in DOMAIN runs' :
             StageExecuted(k) =>
                IF toLowerCase(StageName(runs'[k])) = <<"c", "d">>
                THEN LET arg0 == Arg(StageArgs(runs'[k]), 1)
                         targetPath == resolvePath(cwd, IF Falsy(arg0) THEN Slash
                                                        ELSE arg0)
                     IN  IF getDirectory(fileSystem, targetPath) # Null
                         THEN cwd' = targetPath /\ runs'[k].out = EmptyStr
                         ELSE /\ cwd' = cwd
                              /\ runs'[k].out = RedSpan(CdNoSuch \o Interpolate(arg0))
                ELSE cwd' = cwd
       /\ (~\E k \in DOMAIN runs' : StageExecuted(k)) => cwd' = cwd]_vars

\* /Documents was removed and a cd to it has answered with its error text, the
\* current directory being the root still
C33_Witness ==
    /\ Documents \notin DOMAIN fileSystem.children
    /\ cwd = Slash
    /\ \E k \in DOMAIN runs :
          /\ runs[k].wait = "ready"
          /\ runs[k].commands[runs[k].i] = CdDocuments
          /\ runs[k].out = RedSpan(CdNoSuch \o Documents)

\* C34: the shell's current directory always resolves to an existing directory:
\* after any sequence of terminal commands, getDirectory(cwd) is not none.
C34_CwdExists == getDirectory(fileSystem, cwd) # Null

\* C35: in every reachable state, moveNode(source, dest) returns failure exactly
\* when the source does not exist, dest is no existing directory, the source path
\* is under /System/, dest has a child with the source's name, dest is the
\* source's parent, or dest is the source directory or lies below it; a sibling
\* destination whose path only starts with the source's path text (/Doc into
\* /Documents) succeeds.
C35_MoveFailsOnlyIf ==
    \A sourcePath \in SiblingSources, newParentPath \in SiblingDests :
        LET r == moveNode(fileSystem, isCorrupted, sourcePath, newParentPath)
            source == getNode(fileSystem, sourcePath)
            dest == getDirectory(fileSystem, newParentPath)
        IN  (r.ret # "true")
               <=> \/ source = Null
                   \/ dest = Null
                   \/ StartsWith(sourcePath, SystemPrefix)
                   \/ source.name \in DOMAIN dest.children
                   \/ ParentPathOf(sourcePath) = newParentPath
                   \/ /\ IsDir(source)
                      /\ IsKeyPrefix(PathParts(sourcePath), PathParts(newParentPath))

\* the activation k of runAiCommand has acted in this step: a chunk of its stream
\* was written, or its catch block ran
AiActed(k) ==
    /\ k \in DOMAIN runs
    /\ runs[k].wait \in {"open", "stream"}
    /\ k \notin DOMAIN runs' \/ runs'[k].chunks # runs[k].chunks
    /\ lines' # lines

\* C36: a chunk or an error text of an ai request is written only to the line
\* that request added, or to a new line: every other line of the log is after
\* the step what it was before, whatever other command lines have added lines
\* while the stream was awaited.
C36_AiWritesOwnLine ==
    [][\A k \in DOMAIN runs :
          AiActed(k) =>
             /\ Len(lines') >= Len(lines)
             /\ \A i \in 1..Len(lines) : i # runs[k].line => lines'[i] = lines[i]]_vars

\* the step settles the awaited request of sendMessage's activation k
Settled(k) ==
    /\ k \in ChatRequests
    /\ k \notin DOMAIN requests' \/ requests'[k].kind # "chat"

\* C37: a chat reply lands in the session that asked.  When the request that
\* sendMessage sent while session S was active settles, whatever selectChat,
\* newChat and deleteChat did during the await, S has lost its thinking
\* placeholder and ends with the bot's reply or error message, and the messages
\* of every other session are what they were.
C37_ReplyLandsInAsker ==
    [][\A k \in DOMAIN requests :
          Settled(k) =>
             \A i \in DOMAIN chatSessions :
                IF chatSessions[i].id # requests[k].activeId
                THEN chatSessions'[i].messages = chatSessions[i].messages
                ELSE LET after == chatSessions'[i].messages IN
                     /\ \A j \in DOMAIN after : ~IsThinkingMessage(after[j])
                     /\ after # <<>>
                     /\ after[Len(after)].sender = "bot"]_vars

\* the messages of session sessionId hold the user's message and no placeholder
Answers(sessions, sessionId, message) ==
    \A i \in DOMAIN sessions :
        sessions[i].id = sessionId =>
           /\ \E j \in DOMAIN sessions[i].messages :
                 sessions[i].messages[j] = Message("user", message)
           /\ \A j \in DOMAIN sessions[i].messages :
                 ~IsThinkingMessage(sessions[i].messages[j])

\* every request that sendMessage awaits is settled in the end, and isLoading
\* is false when it is
EventuallyCompletes ==
    \A k \in 1..MaxMessages :
        (k \in ChatRequests) ~> (k \notin ChatRequests /\ ~isLoading)

\* C38: every sendMessage that passes its guards completes with isLoading
\* false; when it completes, the session it was sent in holds the user's
\* message and no message with isThinking, whether the provider replied,
\* failed, or replied without a text so that the handler threw after it had
\* removed the placeholder; and while isLoading is true no second request is
\* started.  That the completion comes in the end is EventuallyCompletes.
C38_SendCompletes ==
    [][/\ \A k \in DOMAIN requests :
             Settled(k) =>
                /\ ~isLoading'
                /\ Answers(chatSessions', requests[k].activeId, requests[k].message)
       /\ isLoading => ChatRequests' \subseteq ChatRequests]_vars

====
